---- MODULE Spec2Model ----
(***************************************************************************)
(* A model of the whoami portfolio assistant: the Document Processor       *)
(* (document_processor.py), the Embedding/Retrieval Client (embeddings.py),*)
(* the Answer Generation Client (llm_client.py), the Interaction Shell     *)
(* (app.py) and the indexing script (scripts/index_documents.py).          *)
(*                                                                         *)
(* Texts are sequences of one-character strings, so that str.split,        *)
(* " ".join and re.sub are modelled by what they do to the characters.     *)
(* Formatted strings (f-strings, str.format) are tuples of their pieces.   *)
(* An optional argument is a set: {} is None, {v} is the value v.          *)
(***************************************************************************)
EXTENDS Integers, Sequences, FiniteSets, TLC

VARIABLES
    \* ---- DocumentProcessor (document_processor.py) ----
    chunk_size,      \* self.chunk_size
    chunk_overlap,   \* self.chunk_overlap
    dp_pc,           \* "idle" | "loop" | "done" | "raised"
    dp_call,         \* which entry point is running: "none" | "chunk_text" | "process_document"
    dp_suffix,       \* file_path.suffix of the document given to process_document ("" when none)
    dp_text,         \* the text handed to chunk_text
    words,           \* chunk_text: words
    i,               \* chunk_text: the loop variable
    chunks,          \* chunk_text: chunks
    metadata,        \* chunk_text: metadata (a function; empty domain = None)
    dp_error,        \* the exception that left the call ("" when none)
    dp_args,         \* the arguments the processor was constructed with
    dp_opened,       \* process_document reached _extract_text (a file was opened)
    dp_failure,      \* how extracting the file's text failed: "none", "open", "read"
    \* ---- EmbeddingManager.query (embeddings.py) ----
    q_pc,            \* "idle" | "done" | "raised"
    q_top_k,         \* the top_k argument
    q_store,         \* what self.index.query did: the store's response or a failure
    q_out,           \* what query returned or raised
    \* ---- OpenRouterClient._build_messages called directly (llm_client.py) ----
    b_pc,            \* "idle" | "done"
    b_args,          \* the arguments: query, context_chunks, chat_history
    b_messages,      \* the list it returned
    \* ---- the session of the Interaction Shell (app.py, st.session_state) ----
    messages,                \* st.session_state.messages
    chat_history,            \* st.session_state.chat_history
    selected_skill,          \* st.session_state.selected_skill (None or a question)
    selected_company,        \* st.session_state.selected_company (None or a question)
    sample_question,         \* st.session_state.sample_question (absent or a question)
    show_skill_suggestions,  \* st.session_state["show_skill_suggestions"] (absent or a skill)
    is_local,                \* OpenRouterClient.is_local
    pc,                      \* where the script is: "Idle" | "Retrieving" | "Generating"
    event,                   \* the widget event that triggered the current script run
    query,                   \* main: query
    source,                  \* which source the query was taken from
    context_chunks,          \* main: context_chunks
    \* ---- what the current script run did (reset when a run starts) ----
    outcome,                 \* "none" | "turn" | "answered" | "no_context" | "exception"
                             \*   | "cleared" | "browsed" | "rendered"
    retrieval,               \* "none" | "empty" | "nonempty" | "raised"
    chat_invoked,            \* llm_client.chat was called
    chat_raised,             \* llm_client.chat raised
    endpoint,                \* what requests.post did, "not_called" when it was not called
    sent,                    \* payload["messages"] of the request (<<>> when none was made)
    response,                \* the dictionary chat returned (empty when it returned none)
    \* ---- history variables for the claims ----
    since_clear,             \* the chat-history entries appended since the last clear
    cleared_history,         \* a clear-history action has removed chat-history entries
    messages_at_start,       \* st.session_state.messages when the current script run started
    chat_history_at_start,   \* st.session_state.chat_history when the current script run started
    \* ---- the constructors of the two clients (embeddings.py, llm_client.py) ----
    env,             \* os.environ: each variable absent (None) or a string
    em_state,        \* EmbeddingManager(): "none" | "ready" | "raised"
    em_error,        \* the exception that left EmbeddingManager.__init__ ("" when none)
    client_state,    \* OpenRouterClient(): "none" | "ready" | "raised"
    client_error,    \* the exception that left OpenRouterClient.__init__ ("" when none)
    client_is_local, \* the is_local field OpenRouterClient.__init__ set
    \* ---- the indexing script and index_documents (index_documents.py, embeddings.py) ----
    ix_pc,           \* "idle" | "documents" | "indexing" | "returned" | "raised"
    ix_call,         \* what was called: "none" | "main" | "index_documents"
    ix_docs,         \* main: what happens to each of the documents, in order
    ix_d,            \* main: how many documents the loop has handled
    all_chunks,      \* main: all_chunks / index_documents: chunks
    batch_size,      \* index_documents: batch_size
    ix_i,            \* index_documents: how many chunks the loop has handled
    vectors,         \* index_documents: vectors
    upserts,         \* the calls of self.index.upsert so far: [vectors, ok]
    ix_raised,       \* an exception left index_documents
    printed          \* main: the messages printed about the run's result

dpVars == <<chunk_size, chunk_overlap, dp_pc, dp_call, dp_suffix, dp_text,
            words, i, chunks, metadata, dp_error, dp_args, dp_opened, dp_failure>>

qVars == <<q_pc, q_top_k, q_store, q_out>>

bVars == <<b_pc, b_args, b_messages>>

slotVars == <<selected_skill, selected_company, sample_question, show_skill_suggestions>>
turnVars == <<query, source, context_chunks, retrieval, chat_invoked, chat_raised,
              endpoint, sent, response>>
sVars == <<messages, chat_history, slotVars, is_local, pc, event, turnVars, outcome,
           since_clear, cleared_history, messages_at_start, chat_history_at_start>>

cfgVars == <<env, em_state, em_error, client_state, client_error, client_is_local>>

ixVars == <<ix_pc, ix_call, ix_docs, ix_d, all_chunks, batch_size, ix_i, vectors, upserts,
            ix_raised, printed>>

vars == <<dpVars, qVars, bVars, sVars, cfgVars, ixVars>>

\* the variables each component leaves alone
otherThanDoc == <<qVars, bVars, sVars, cfgVars, ixVars>>
otherThanQuery == <<dpVars, bVars, sVars, cfgVars, ixVars>>
otherThanBuild == <<dpVars, qVars, sVars, cfgVars, ixVars>>
otherThanSession == <<dpVars, qVars, bVars, cfgVars, ixVars>>
otherThanConfig == <<dpVars, qVars, bVars, sVars, ixVars>>
otherThanIndex == <<dpVars, qVars, bVars, sVars, cfgVars>>

\* ------------------------------------------------------------------ bounds
MaxTextLen == 8      \* longest text given to chunk_text directly
MaxFileLen == 4      \* longest file content given to process_document
MaxArg == 3          \* largest explicit chunk_size / chunk_overlap argument
MaxScore == 2        \* scores are 0..MaxScore (a similarity in [0,1], scaled)
MaxMatches == 3      \* longest response of the vector store to a direct query
MaxTopK == 2         \* largest top_k of a direct query
MaxHistory == 8      \* longest chat history given to _build_messages directly
MaxMessages == 4     \* a turn starts only while the message log has room for its two messages
MaxChunks == 4       \* longest chunk list given to index_documents directly
MaxBatch == 3        \* largest explicit batch_size
MaxDocChunks == 2    \* most chunks process_document returns to the indexing script

\* ------------------------------------------------------------ generic helpers
None == {}
Some(v) == {v}
TheValue(opt) == CHOOSE v \in opt : TRUE

EmptyDict == [k \in {} |-> 0]
\* dict.update(other): the keys of other win
DictUpdate(d, other) ==
    [k \in DOMAIN d \cup DOMAIN other |-> IF k \in DOMAIN other THEN other[k] ELSE d[k]]

SeqsUpTo(S, n) == UNION {[1..k -> S] : k \in 0..n}

Min(a, b) == IF a <= b THEN a ELSE b
Max(a, b) == IF a >= b THEN a ELSE b

\* Python's seq[lo:hi] for 0 <= lo, with 0-based bounds, on a 1-based sequence
SliceInclusive(s, lo, hi) == SubSeq(s, lo + 1, Min(hi + 1, Len(s)))
Slice(s, lo, hi) ==
    LET h == Min(hi, Len(s))
    IN  IF lo >= h THEN <<>> ELSE [k \in 1..(h - lo) |-> s[lo + k]]

RECURSIVE Flatten(_)
Flatten(ss) == IF ss = <<>> THEN <<>> ELSE Head(ss) \o Flatten(Tail(ss))

\* ------------------------------------------------------------ characters
Whitespace == {" ", "\n"}          \* what \s matches and str.split() splits on
WordChars == {"a", "b"}            \* \w
Punctuation == {".", ",", "!", "?", ";", ":", "(", ")", "-", "@"}
TextAlphabet == {"a", " "}         \* the characters of the texts given to chunk_text
FileAlphabet == {"a", " ", "#"}    \* the characters of the file contents
Texts == SeqsUpTo(TextAlphabet, MaxTextLen)

\* str.split(): maximal runs of non-whitespace characters
RECURSIVE SplitFrom(_, _, _, _)
SplitFrom(t, k, cur, acc) ==
    IF k > Len(t)
    THEN IF cur = <<>> THEN acc ELSE Append(acc, cur)
    ELSE IF t[k] \in Whitespace
         THEN SplitFrom(t, k + 1, <<>>, IF cur = <<>> THEN acc ELSE Append(acc, cur))
         ELSE SplitFrom(t, k + 1, Append(cur, t[k]), acc)
Split(t) == SplitFrom(t, 1, <<>>, <<>>)

\* " ".join(ws)
RECURSIVE Join(_)
Join(ws) ==
    IF ws = <<>> THEN <<>>
    ELSE IF Len(ws) = 1 THEN Head(ws)
    ELSE Head(ws) \o <<" ">> \o Join(Tail(ws))

\* re.sub(r"\s+", " ", text)
RECURSIVE CollapseWhitespace(_)
CollapseWhitespace(t) ==
    IF t = <<>> THEN <<>>
    ELSE IF Head(t) \in Whitespace
         THEN IF Len(t) >= 2 /\ t[2] \in Whitespace
              THEN CollapseWhitespace(Tail(t))
              ELSE <<" ">> \o CollapseWhitespace(Tail(t))
         ELSE <<Head(t)>> \o CollapseWhitespace(Tail(t))

\* re.sub(r"[^\w\s.,!?;:()\-@]", "", text)
RemoveSpecial(t) == SelectSeq(t, LAMBDA c : c \in WordChars \cup Whitespace \cup Punctuation)

\* str.strip()
RECURSIVE LStrip(_)
LStrip(t) == IF t # <<>> /\ Head(t) \in Whitespace THEN LStrip(Tail(t)) ELSE t
RECURSIVE RStrip(_)
RStrip(t) ==
    IF t # <<>> /\ t[Len(t)] \in Whitespace THEN RStrip(SubSeq(t, 1, Len(t) - 1)) ELSE t
Strip(t) == RStrip(LStrip(t))

\* DocumentProcessor.clean_text
clean_text(text) == Strip(RemoveSpecial(CollapseWhitespace(text)))

\* ------------------------------------------------------------ DocumentProcessor
DEFAULT_CHUNK_SIZE == 400
DEFAULT_CHUNK_OVERLAP == 50
SUPPORTED_EXTENSIONS == {<<".pdf">>, <<".txt">>, <<".md">>}

\* Python truthiness of an optional int argument: None and 0 are falsy
Truthy(opt) == opt # None /\ opt # Some(0)

\* x or default
OrDefault(opt, default) == IF Truthy(opt) THEN TheValue(opt) ELSE default

\* DocumentProcessor.__init__(chunk_size, chunk_overlap): the fields it sets
DocumentProcessorInit(cs, co) ==
    [chunk_size    |-> OrDefault(cs, DEFAULT_CHUNK_SIZE),
     chunk_overlap |-> OrDefault(co, DEFAULT_CHUNK_OVERLAP)]

OptArgs == {None} \cup {Some(n) : n \in 0..MaxArg}

\* str.lower() on a suffix (a one-element tuple holding the suffix)
LowerLeftOut(suffix) == suffix
Lower(suffix) ==
    IF suffix = <<".PDF">> THEN <<".pdf">>
    ELSE IF suffix = <<".MD">> THEN <<".md">>
    ELSE suffix

Suffixes == {<<".pdf">>, <<".txt">>, <<".MD">>, <<".docx">>, <<"">>}
FileContents == SeqsUpTo(FileAlphabet, MaxFileLen)
DocTypes == {None, Some("resume")}

\* the step of chunk_text's range(): self.chunk_size - self.chunk_overlap
StrideIgnoringOverlap == chunk_size
Stride == chunk_size - chunk_overlap

\* whether v, reached from 0 in steps of step, is produced by range(0, stop, step)
\* (step # 0: range() raises ValueError on a zero step)
InRangeSkippingTail(v, stop, step) ==
    IF step > 0 THEN v < stop - chunk_size ELSE v > stop - chunk_size
InRange(v, stop, step) == IF step > 0 THEN v < stop ELSE v > stop

\* the chunk_data dictionary built in one iteration of chunk_text's loop
ChunkData(chunk_words, n, md) ==
    LET chunk_data == [k \in {"text", "word_count", "chunk_index"} |->
                          CASE k = "text" -> Join(chunk_words)
                            [] k = "word_count" -> Len(chunk_words)
                            [] k = "chunk_index" -> n]
    IN  IF DOMAIN md # {} THEN DictUpdate(chunk_data, md) ELSE chunk_data

\* chunk_text(text, metadata) up to the first evaluation of its range():
\* words = text.split(); chunks = []; range(0, len(words), chunk_size - chunk_overlap)
EnterChunkText(text, md) ==
    LET ws == Split(text)
        stride == Stride
    IN  /\ dp_text' = text
        /\ words' = ws
        /\ chunks' = <<>>
        /\ metadata' = md
        /\ i' = 0
        /\ IF stride = 0
           THEN dp_pc' = "raised" /\ dp_error' = "ValueError: range() arg 3 must not be zero"
           ELSE /\ dp_error' = ""
                /\ dp_pc' = IF InRange(0, Len(ws), stride) THEN "loop" ELSE "done"

\* a direct call chunk_text(text) with no metadata
ChunkTextCall(text) ==
    /\ dp_pc = "idle"
    /\ dp_call' = "chunk_text"
    /\ EnterChunkText(text, EmptyDict)
    /\ UNCHANGED <<chunk_size, chunk_overlap, dp_suffix, dp_args, dp_opened, dp_failure>>
    /\ UNCHANGED otherThanDoc

\* one iteration of the loop of chunk_text, up to the next test of the range
ChunkLoopStepWithoutAdvance ==
    /\ dp_pc = "loop"
    /\ LET chunk_words == Slice(words, i, i + chunk_size)
       IN  /\ chunks' = Append(chunks, ChunkData(chunk_words, Len(chunks), metadata))
           /\ IF i + chunk_size >= Len(words)
              THEN dp_pc' = "done" /\ i' = i
              ELSE dp_pc' = "loop" /\ i' = i
    /\ UNCHANGED <<chunk_size, chunk_overlap, dp_call, dp_suffix, dp_text, words,
                   metadata, dp_error, dp_args, dp_opened, dp_failure>>
    /\ UNCHANGED otherThanDoc
ChunkLoopStep ==
    /\ dp_pc = "loop"
    /\ LET chunk_words == Slice(words, i, i + chunk_size)
           stride == Stride
       IN  /\ chunks' = Append(chunks, ChunkData(chunk_words, Len(chunks), metadata))
           /\ IF i + chunk_size >= Len(words)
              THEN dp_pc' = "done" /\ i' = i
              ELSE IF InRange(i + stride, Len(words), stride)
                   THEN dp_pc' = "loop" /\ i' = i + stride
                   ELSE dp_pc' = "done" /\ i' = i
    /\ UNCHANGED <<chunk_size, chunk_overlap, dp_call, dp_suffix, dp_text, words,
                   metadata, dp_error, dp_args, dp_opened, dp_failure>>
    /\ UNCHANGED otherThanDoc

\* how opening and reading a file can go: no failure, open() raises, or a
\* later read (f.read(), PdfReader, page.extract_text()) raises
Failures == {"none", "open", "read"}

\* extract_text_from_pdf; content: the text of the pages extracted (all of
\* them, or with failure = "read" those before the failing one). The except
\* clause prints and the text accumulated so far is returned.
ExtractTextFromPdf(content, failure) ==
    [raised |-> FALSE,
     text   |-> CASE failure = "none" -> content \o <<"\n">>
                  [] failure = "open" -> <<>>
                  [] failure = "read" ->
                       IF content = <<>> THEN <<>> ELSE content \o <<"\n">>]

\* _extract_text on a file whose text is content: the branch for .txt and .md
\* opens and reads outside any try.
\* The result is [raised |-> BOOLEAN, text |-> the text].
ExtractText(suffix, content, failure) ==
    IF Lower(suffix) = <<".pdf">>
    THEN ExtractTextFromPdf(content, failure)
    ELSE [raised |-> failure # "none",
          text   |-> IF failure = "none" THEN content ELSE <<>>]

\* the texts that can have been read from a file when the extraction ends:
\* nothing from a file of an unsupported type or one that cannot be opened,
\* and nothing is kept of a text file whose read fails
ReadBefore(suffix, failure) ==
    IF /\ Lower(suffix) \in SUPPORTED_EXTENSIONS
       /\ \/ failure = "none"
          \/ failure = "read" /\ Lower(suffix) = <<".pdf">>
    THEN FileContents ELSE {<<>>}

\* process_document(file_path, doc_type)
ProcessDocumentCall(suffix, doc_type, content, failure) ==
    /\ dp_pc = "idle"
    /\ dp_call' = "process_document"
    /\ dp_suffix' = suffix
    /\ UNCHANGED <<chunk_size, chunk_overlap, dp_args>>
    /\ UNCHANGED otherThanDoc
    /\ dp_opened' = (Lower(suffix) \in SUPPORTED_EXTENSIONS)
    /\ dp_failure' = IF Lower(suffix) \in SUPPORTED_EXTENSIONS THEN failure ELSE "none"
    /\ IF Lower(suffix) \notin SUPPORTED_EXTENSIONS
       THEN /\ dp_pc' = "raised"
            /\ dp_error' = "ValueError: Unsupported file type"
            /\ UNCHANGED <<dp_text, words, i, chunks, metadata>>
       ELSE LET ex == ExtractText(suffix, content, failure)
            IN  IF ex.raised
                THEN /\ dp_pc' = "raised"
                     /\ dp_error' = "OSError"
                     /\ UNCHANGED <<dp_text, words, i, chunks, metadata>>
                ELSE EnterChunkText(
                         clean_text(ex.text),
                         [k \in {"source", "doc_type", "file_path"} |->
                             CASE k = "source" -> <<"doc">> \o suffix
                               [] k = "doc_type" ->
                                    IF doc_type # None /\ TheValue(doc_type) # ""
                                    THEN TheValue(doc_type) ELSE "general"
                               [] k = "file_path" -> <<"data/", "doc">> \o suffix])

\* a processor constructed with no arguments, on which nothing is called
DocUnused ==
    /\ dp_args = [chunk_size |-> None, chunk_overlap |-> None]
    /\ chunk_size = DocumentProcessorInit(None, None).chunk_size
    /\ chunk_overlap = DocumentProcessorInit(None, None).chunk_overlap
    /\ dp_pc = "idle"
    /\ dp_call = "none"
    /\ dp_suffix = <<>>
    /\ dp_text = <<>>
    /\ words = <<>>
    /\ i = 0
    /\ chunks = <<>>
    /\ metadata = EmptyDict
    /\ dp_error = ""
    /\ dp_opened = FALSE
    /\ dp_failure = "none"

DocInit ==
    /\ \E cs \in OptArgs, co \in OptArgs :
          /\ dp_args = [chunk_size |-> cs, chunk_overlap |-> co]
          /\ chunk_size = DocumentProcessorInit(cs, co).chunk_size
          /\ chunk_overlap = DocumentProcessorInit(cs, co).chunk_overlap
    /\ dp_pc = "idle"
    /\ dp_call = "none"
    /\ dp_suffix = <<>>
    /\ dp_text = <<>>
    /\ words = <<>>
    /\ i = 0
    /\ chunks = <<>>
    /\ metadata = EmptyDict
    /\ dp_error = ""
    /\ dp_opened = FALSE
    /\ dp_failure = "none"

DocNext ==
    \/ \E text \in Texts : ChunkTextCall(text)
    \/ \E suffix \in Suffixes, doc_type \in DocTypes, failure \in Failures :
          \E content \in ReadBefore(suffix, failure) :
             ProcessDocumentCall(suffix, doc_type, content, failure)
    \/ ChunkLoopStep

\* ------------------------------------------------------------ EmbeddingManager.query

\* dict.get(key, default)
Get(d, key, default) == IF key \in DOMAIN d THEN d[key] ELSE default

\* the metadata of a stored vector record: all fields, or none
FullMetadata ==
    [k \in {"text", "source", "doc_type"} |->
        CASE k = "text" -> "Python, SQL"
          [] k = "source" -> "resume.pdf"
          [] k = "doc_type" -> "resume"]
Metadatas == {FullMetadata, EmptyDict}

\* a match of the store's response; the last one lacks its metadata
Matches ==
    {[k \in {"metadata", "score"} |-> IF k = "metadata" THEN md ELSE sc] :
        md \in Metadatas, sc \in 0..MaxScore}
    \cup {[k \in {"score"} |-> 0]}

\* what self.index.query can do: answer with any list of matches (the store is
\* a hosted service, its response is not checked), or fail
StoreOutcomes(maxlen) ==
    {[kind |-> "response", matches |-> ms] : ms \in SeqsUpTo(Matches, maxlen)}
    \cup {[kind |-> "failure", matches |-> <<>>]}

\* the dictionary query() appends for one match
FormatMatchScoreDefaulted(match) ==
    [text     |-> Get(match["metadata"], "text", ""),
     source   |-> Get(match["metadata"], "source", "unknown"),
     doc_type |-> Get(match["metadata"], "doc_type", "general"),
     score    |-> 0]
FormatMatch(match) ==
    [text     |-> Get(match["metadata"], "text", ""),
     source   |-> Get(match["metadata"], "source", "unknown"),
     doc_type |-> Get(match["metadata"], "doc_type", "general"),
     score    |-> match["score"]]

\* EmbeddingManager.query(query_text, top_k), given what the store did:
\* [raised |-> BOOLEAN, error |-> the exception, result |-> formatted_results]
QueryOutcome(store) ==
    IF store.kind = "failure"
    THEN [raised |-> TRUE, error |-> "ConnectionError", result |-> <<>>]
    ELSE IF \E k \in 1..Len(store.matches) : "metadata" \notin DOMAIN store.matches[k]
    THEN [raised |-> TRUE, error |-> "KeyError: 'metadata'", result |-> <<>>]
    ELSE [raised |-> FALSE, error |-> "",
          result |-> [k \in 1..Len(store.matches) |-> FormatMatch(store.matches[k])]]

\* a direct call query(query_text, top_k)
QueryCall(top_k, store) ==
    /\ q_pc = "idle"
    /\ q_top_k' = top_k
    /\ q_store' = store
    /\ q_out' = QueryOutcome(store)
    /\ q_pc' = IF QueryOutcome(store).raised THEN "raised" ELSE "done"
    /\ UNCHANGED otherThanQuery

QueryUnused ==
    /\ q_pc = "idle"
    /\ q_top_k = 0
    /\ q_store = [kind |-> "response", matches |-> <<>>]
    /\ q_out = [raised |-> FALSE, error |-> "", result |-> <<>>]

QueryNext ==
    \E top_k \in 1..MaxTopK, store \in StoreOutcomes(MaxMatches) : QueryCall(top_k, store)

\* ------------------------------------------------------------ OpenRouterClient
MAX_HISTORY_MESSAGES == 6
DEFAULT_MODEL == "meta-llama/llama-3.3-70b-instruct:free"

\* config/prompts.json as loaded by _load_prompts. A string is the tuple of its
\* pieces; the template holds its literal pieces and its two replacement fields.
Prompts ==
    [k \in {"system_prompt", "user_prompt_template"} |->
        IF k = "system_prompt"
        THEN <<"You are Alec's assistant.">>
        ELSE <<"Context:\n", "{context}", "\nQuestion: ", "{query}">>]

\* sep.join(parts), each part a tuple of pieces
RECURSIVE JoinWith(_, _)
JoinWith(parts, sep) ==
    IF parts = <<>> THEN <<>>
    ELSE IF Len(parts) = 1 THEN Head(parts)
    ELSE Head(parts) \o <<sep>> \o JoinWith(Tail(parts), sep)

\* template.format(context=context, query=query)
Format(template, context, q) ==
    Flatten([k \in 1..Len(template) |->
                IF template[k] = "{context}" THEN context
                ELSE IF template[k] = "{query}" THEN q
                ELSE <<template[k]>>])

\* OpenRouterClient.create_prompt(query, context_chunks)
create_prompt(q, cks) ==
    LET context_parts ==
            [n \in 1..Len(cks) |->
                <<"[Source ", ToString(n), ": ",
                  Get(cks[n], "source", "unknown"), "]\n",
                  Get(cks[n], "text", ""), "\n">>]
        context == JoinWith(context_parts, "\n")
    IN  Format(Get(Prompts, "user_prompt_template", <<>>), context, q)

\* chat_history[-n:]
FirstN(s, n) == SubSeq(s, 1, Min(n, Len(s)))
LastN(s, n) == SubSeq(s, Max(1, Len(s) - n + 1), Len(s))

\* OpenRouterClient._build_messages(query, context_chunks, chat_history);
\* chat_history is optional (None, or a list)
BuildMessages(q, cks, hist) ==
    <<[role |-> "system", content |-> Get(Prompts, "system_prompt", <<>>)]>>
    \o (IF hist # None /\ TheValue(hist) # <<>>
        THEN LastN(TheValue(hist), MAX_HISTORY_MESSAGES)
        ELSE <<>>)
    \o <<[role |-> "user", content |-> create_prompt(q, cks)]>>

\* two matches of the store for the bounded inputs of the session: two chunks of
\* the same document
MatchA ==
    [k \in {"metadata", "score"} |-> IF k = "metadata" THEN FullMetadata ELSE MaxScore]
MatchB ==
    [k \in {"metadata", "score"} |->
        IF k = "metadata"
        THEN [FullMetadata EXCEPT !["text"] = "Led a data team"]
        ELSE MaxScore - 1]
ChunkA == FormatMatch(MatchA)
ChunkB == FormatMatch(MatchB)
ContextChunkLists == {<<>>, <<ChunkA>>, <<ChunkA, ChunkB>>}

UserInput == <<"Where does Alec live?">>
Answer == <<"Alec knows Python and SQL.">>

HistoryEntries ==
    {[role |-> "user", content |-> UserInput],
     [role |-> "assistant", content |-> Answer]}
ChatHistories == {None} \cup {Some(h) : h \in SeqsUpTo(HistoryEntries, MaxHistory)}

\* a direct call _build_messages(query, context_chunks, chat_history)
BuildMessagesCall(q, cks, hist) ==
    /\ b_pc = "idle"
    /\ b_args' = [query |-> q, context_chunks |-> cks, chat_history |-> hist]
    /\ b_messages' = BuildMessages(q, cks, hist)
    /\ b_pc' = "done"
    /\ UNCHANGED otherThanBuild

BuildUnused ==
    /\ b_pc = "idle"
    /\ b_args = [query |-> <<>>, context_chunks |-> <<>>, chat_history |-> None]
    /\ b_messages = <<>>

BuildNext ==
    \E cks \in ContextChunkLists, hist \in ChatHistories :
        BuildMessagesCall(UserInput, cks, hist)

\* ------------------------------------------------------------ OpenRouterClient.chat

\* what requests.post / raise_for_status / response.json() can do: a body of the
\* chat-completion shape, a body without it, or a requests.exceptions.RequestException
EndpointOutcomes ==
    {[kind |-> "body", body |-> [choices |-> <<[message |-> [content |-> Answer]]>>]],
     [kind |-> "body", body |-> [error |-> <<"Rate limit exceeded">>]],
     [kind |-> "exception", error |-> "503 Server Error: Service Unavailable"]}
NotCalled == [kind |-> "not_called"]

\* whether api_data["choices"][0]["message"]["content"] evaluates
HasContent(api_data) ==
    /\ "choices" \in DOMAIN api_data
    /\ Len(api_data["choices"]) >= 1
    /\ "message" \in DOMAIN api_data["choices"][1]
    /\ "content" \in DOMAIN api_data["choices"][1]["message"]

\* [chunk.get("source") for chunk in context_chunks]
SourcesOfDeduplicated(cks) ==
    LET all == [n \in 1..Len(cks) |-> Get(cks[n], "source", "None")]
        keep == {n \in 1..Len(all) : \A m \in 1..(n - 1) : all[m] # all[n]}
    IN  [k \in 1..Cardinality(keep) |->
            all[CHOOSE n \in keep : Cardinality({m \in keep : m < n}) = k - 1]]
SourcesOf(cks) == [n \in 1..Len(cks) |-> Get(cks[n], "source", "None")]

\* OpenRouterClient._create_mock_response
MockResponseWithoutQuery(q, cks) ==
    [answer |-> <<"This is a mocked message">>,
     model |-> DEFAULT_MODEL,
     sources |-> SourcesOf(cks),
     context_chunks |-> cks]
MockResponse(q, cks) ==
    [answer |-> <<"This is a mocked message for query: ">> \o q,
     model |-> DEFAULT_MODEL,
     sources |-> SourcesOf(cks),
     context_chunks |-> cks]

\* OpenRouterClient._create_success_response, where api_data has its content
SuccessResponse(api_data, cks) ==
    [answer |-> api_data["choices"][1]["message"]["content"],
     model |-> DEFAULT_MODEL,
     sources |-> SourcesOf(cks),
     context_chunks |-> cks]

\* OpenRouterClient._create_error_response
ErrorResponseWithoutErrorField(error_message) ==
    [answer |-> <<"Error generating response: ", error_message>>,
     model |-> DEFAULT_MODEL,
     sources |-> <<>>,
     context_chunks |-> <<>>]
ErrorResponse(error_message) ==
    [answer |-> <<"Error generating response: ", error_message>>,
     model |-> DEFAULT_MODEL,
     sources |-> <<>>,
     context_chunks |-> <<>>,
     error |-> error_message]

NoResponse == [k \in {} |-> 0]

\* OpenRouterClient.chat(query, context_chunks, chat_history) on a client whose
\* is_local is local, given what the endpoint does when it is called:
\* [raised, error: the exception that left chat, response: what chat returned,
\*  sent: the messages of the request, endpoint: what the endpoint did]
chat(local, q, cks, history, ep) ==
    IF local
    THEN [raised |-> FALSE, error |-> "", response |-> MockResponse(q, cks),
          sent |-> <<>>, endpoint |-> NotCalled]
    ELSE LET msgs == BuildMessages(q, cks, history)
         IN  IF ep.kind = "exception"
             THEN [raised |-> FALSE, error |-> "",
                   response |-> ErrorResponse(ep.error),
                   sent |-> msgs, endpoint |-> ep]
             ELSE IF HasContent(ep.body)
             THEN [raised |-> FALSE, error |-> "",
                   response |-> SuccessResponse(ep.body, cks),
                   sent |-> msgs, endpoint |-> ep]
             ELSE [raised |-> TRUE,
                   error |-> IF "choices" \in DOMAIN ep.body
                             THEN "IndexError: list index out of range"
                             ELSE "KeyError: 'choices'",
                   response |-> NoResponse,
                   sent |-> msgs, endpoint |-> ep]

\* ------------------------------------------------------------ Interaction Shell
DEFAULT_TOP_K == 5
ERROR_NO_CONTEXT ==
    <<"I couldn't find relevant information to answer your question. Please try rephrasing or ask something else!">>

\* the widgets' values in the bounded inputs
SampleQuestions ==
    {<<"What are Alec's technical skills?">>, <<"Tell me about Alec's work experience">>}
UserInputs == {UserInput}
Skills == {"Python"}
Organizations == {"Christelijke Mutualiteit"}

\* generate_question_suggestions(skill, "skill")
QuestionSuggestions(skill) ==
    {<<"What projects has Alec used ", skill, " in?">>,
     <<"Tell me about Alec's experience with ", skill>>,
     <<"What has Alec built using ", skill, "?">>}

\* the suggested questions that are clicked in the bounded session
ClickedSuggestions ==
    {sg \in UNION {QuestionSuggestions(sk) : sk \in Skills} :
        sg[1] = "What projects has Alec used "}

\* the sample question that is clicked in the bounded session
ClickedSampleQuestions == {<<"What are Alec's technical skills?">>}

\* the question of the timeline's "Ask about this" button
CompanyQuestion(org) == <<"Tell me about Alec's time at ", org>>

\* the event that triggers a script run: a widget the user acted on, or none (a
\* rerun the script asked for with st.rerun())
Events ==
    {[kind |-> "rerun", value |-> <<>>]}
    \cup {[kind |-> "sample_question", value |-> sq] : sq \in SampleQuestions}
    \cup {[kind |-> "chat_input", value |-> t] : t \in UserInputs}
    \cup {[kind |-> "skill", value |-> <<sk>>] : sk \in Skills}
    \cup {[kind |-> "suggestion", value |-> sg] : sg \in ClickedSuggestions}
    \cup {[kind |-> "timeline", value |-> <<org>>] : org \in Organizations}
    \cup {[kind |-> "clear", value |-> <<>>]}

\* truthiness of a slot that holds None or a string
SlotSet(slot) == slot # None /\ TheValue(slot) # <<>>

\* a query selection that empties every slot when it takes a query
GetQueryClearingAll(skill, company, sample, user_input) ==
    IF SlotSet(skill)
    THEN [query |-> skill, source |-> "selected_skill",
          selected_skill |-> None, selected_company |-> None, sample_question |-> None]
    ELSE IF SlotSet(company)
    THEN [query |-> company, source |-> "selected_company",
          selected_skill |-> None, selected_company |-> None, sample_question |-> None]
    ELSE IF sample # None
    THEN [query |-> sample, source |-> "sample_question",
          selected_skill |-> None, selected_company |-> None, sample_question |-> None]
    ELSE [query |-> IF SlotSet(user_input) THEN user_input ELSE None,
          source |-> IF SlotSet(user_input) THEN "chat_input" ELSE "none",
          selected_skill |-> skill, selected_company |-> company, sample_question |-> sample]

\* the query selection of main (app.py 173-185): the query, where it came from,
\* and the slots afterwards; user_input is None or the submitted text
GetQuerySampleFirst(skill, company, sample, user_input) ==
    IF sample # None
    THEN [query |-> sample, source |-> "sample_question",
          selected_skill |-> skill, selected_company |-> company, sample_question |-> None]
    ELSE IF SlotSet(skill)
    THEN [query |-> skill, source |-> "selected_skill",
          selected_skill |-> None, selected_company |-> company, sample_question |-> sample]
    ELSE IF SlotSet(company)
    THEN [query |-> company, source |-> "selected_company",
          selected_skill |-> skill, selected_company |-> None, sample_question |-> sample]
    ELSE [query |-> IF SlotSet(user_input) THEN user_input ELSE None,
          source |-> IF SlotSet(user_input) THEN "chat_input" ELSE "none",
          selected_skill |-> skill, selected_company |-> company, sample_question |-> sample]
GetQuery(skill, company, sample, user_input) ==
    IF SlotSet(skill)
    THEN [query |-> skill, source |-> "selected_skill",
          selected_skill |-> None, selected_company |-> company, sample_question |-> sample]
    ELSE IF SlotSet(company)
    THEN [query |-> company, source |-> "selected_company",
          selected_skill |-> skill, selected_company |-> None, sample_question |-> sample]
    ELSE IF sample # None
    THEN [query |-> sample, source |-> "sample_question",
          selected_skill |-> skill, selected_company |-> company, sample_question |-> None]
    ELSE [query |-> IF SlotSet(user_input) THEN user_input ELSE None,
          source |-> IF SlotSet(user_input) THEN "chat_input" ELSE "none",
          selected_skill |-> skill, selected_company |-> company, sample_question |-> sample]

\* the state of the turn-local variables when a script run starts
TurnReset ==
    /\ retrieval' = "none"
    /\ chat_invoked' = FALSE
    /\ chat_raised' = FALSE
    /\ endpoint' = NotCalled
    /\ sent' = <<>>
    /\ response' = NoResponse
    /\ context_chunks' = <<>>
    /\ messages_at_start' = messages
    /\ chat_history_at_start' = chat_history

\* the clear-history button's handler (app.py 282-283)
ClearMessagesOnly ==
    /\ messages' = <<>>
    /\ UNCHANGED chat_history
    /\ since_clear' = <<>>
    /\ cleared_history' = (cleared_history \/ chat_history # <<>>)
ClearChat ==
    /\ messages' = <<>>
    /\ chat_history' = <<>>
    /\ since_clear' = <<>>
    /\ cleared_history' = (cleared_history \/ chat_history # <<>>)

\* the rest of the script with a timeline handler that puts its question into
\* the message log itself
RestOfScriptLoggingQuestion(ev) ==
    CASE ev.kind = "skill" ->
            /\ show_skill_suggestions' = Some(ev.value[1])
            /\ outcome' = "browsed"
            /\ UNCHANGED <<messages, chat_history, selected_skill, selected_company,
                           since_clear, cleared_history>>
      [] ev.kind = "suggestion" ->
            /\ selected_skill' = Some(ev.value)
            /\ show_skill_suggestions' = None
            /\ outcome' = "browsed"
            /\ UNCHANGED <<messages, chat_history, selected_company,
                           since_clear, cleared_history>>
      [] ev.kind = "timeline" ->
            /\ selected_company' = Some(CompanyQuestion(ev.value[1]))
            /\ messages' = IF Len(messages) < MaxMessages
                           THEN Append(messages, [role |-> "user",
                                                  content |-> CompanyQuestion(ev.value[1])])
                           ELSE messages
            /\ outcome' = "browsed"
            /\ UNCHANGED <<chat_history, selected_skill, show_skill_suggestions,
                           since_clear, cleared_history>>
      [] ev.kind = "clear" ->
            /\ messages # <<>>
            /\ ClearChat
            /\ outcome' = "cleared"
            /\ UNCHANGED <<selected_skill, selected_company, show_skill_suggestions>>
      [] OTHER ->
            /\ outcome' = "rendered"
            /\ UNCHANGED <<messages, chat_history, selected_skill, selected_company,
                           show_skill_suggestions, since_clear, cleared_history>>

\* the end of the script after the chat tab, when no query was found
\* (app.py 224-284): the skills tab, the timeline tab, the clear button
RestOfScript(ev) ==
    CASE ev.kind = "skill" ->
            /\ show_skill_suggestions' = Some(ev.value[1])
            /\ outcome' = "browsed"
            /\ UNCHANGED <<messages, chat_history, selected_skill, selected_company,
                           since_clear, cleared_history>>
      [] ev.kind = "suggestion" ->
            /\ selected_skill' = Some(ev.value)
            /\ show_skill_suggestions' = None
            /\ outcome' = "browsed"
            /\ UNCHANGED <<messages, chat_history, selected_company,
                           since_clear, cleared_history>>
      [] ev.kind = "timeline" ->
            /\ selected_company' = Some(CompanyQuestion(ev.value[1]))
            /\ outcome' = "browsed"
            /\ UNCHANGED <<messages, chat_history, selected_skill, show_skill_suggestions,
                           since_clear, cleared_history>>
      [] ev.kind = "clear" ->
            /\ messages # <<>>
            /\ ClearChat
            /\ outcome' = "cleared"
            /\ UNCHANGED <<selected_skill, selected_company, show_skill_suggestions>>
      [] OTHER ->
            /\ outcome' = "rendered"
            /\ UNCHANGED <<messages, chat_history, selected_skill, selected_company,
                           show_skill_suggestions, since_clear, cleared_history>>

\* one run of the script up to its first external call (app.py 95-222): the
\* sidebar, the chat tab's query selection, and then either the start of a turn
\* or the rest of the script
ScriptRun(ev) ==
    /\ pc = "Idle"
    /\ event' = ev
    /\ TurnReset
    /\ UNCHANGED is_local
    /\ UNCHANGED otherThanSession
    /\ LET sample_now == IF ev.kind = "sample_question" THEN Some(ev.value)
                         ELSE sample_question
           user_input == IF ev.kind = "chat_input" THEN Some(ev.value) ELSE None
           g == GetQuery(selected_skill, selected_company, sample_now, user_input)
       IN  IF g.query # None
           THEN /\ Len(messages) + 2 <= MaxMessages
                /\ messages' = Append(messages, [role |-> "user", content |-> TheValue(g.query)])
                /\ query' = TheValue(g.query)
                /\ source' = g.source
                /\ selected_skill' = g.selected_skill
                /\ selected_company' = g.selected_company
                /\ sample_question' = g.sample_question
                /\ pc' = "Retrieving"
                /\ outcome' = "turn"
                /\ UNCHANGED <<chat_history, show_skill_suggestions, since_clear,
                               cleared_history>>
           ELSE /\ query' = <<>>
                /\ source' = "none"
                /\ sample_question' = sample_now
                /\ pc' = "Idle"
                /\ RestOfScript(ev)

\* the script runs by the event that triggers them
\* a sample question of the sidebar is clicked (app.py 137-139)
SampleQuestionButton(sq) ==
    /\ sq \in SampleQuestions
    /\ ScriptRun([kind |-> "sample_question", value |-> sq])
\* a text is submitted in the chat input (app.py 171)
ChatInput(t) ==
    /\ t \in UserInputs
    /\ ScriptRun([kind |-> "chat_input", value |-> t])
\* a skill of the skills tab is clicked (app.py 237-239)
SkillButton(sk) ==
    /\ sk \in Skills
    /\ ScriptRun([kind |-> "skill", value |-> <<sk>>])
\* a suggested question of the skills tab is clicked (app.py 246-251)
SuggestionButton(sg) ==
    /\ show_skill_suggestions # None
    /\ sg \in QuestionSuggestions(TheValue(show_skill_suggestions))
    /\ ScriptRun([kind |-> "suggestion", value |-> sg])
\* an "Ask about this" button of the timeline tab is clicked (app.py 273-277)
TimelineButton(org) ==
    /\ org \in Organizations
    /\ ScriptRun([kind |-> "timeline", value |-> <<org>>])
\* the clear-history button is clicked (app.py 280-284)
ClearChatButton ==
    /\ messages # <<>>
    /\ ScriptRun([kind |-> "clear", value |-> <<>>])
\* the script runs with no widget event, after st.rerun()
Rerun ==
    /\ pc = "Idle"
    /\ ScriptRun([kind |-> "rerun", value |-> <<>>])

\* app.py 205-222: the assistant message, the two chat-history entries, st.rerun()
FinishTurnRestartingHistory(response_text, sources, cks) ==
    /\ messages' = Append(messages,
                          [role |-> "assistant", content |-> response_text,
                           sources |-> sources, context_chunks |-> cks])
    /\ chat_history' = <<[role |-> "user", content |-> query],
                         [role |-> "assistant", content |-> response_text]>>
    /\ since_clear' = since_clear \o
                          <<[role |-> "user", content |-> query],
                            [role |-> "assistant", content |-> response_text]>>
    /\ pc' = "Idle"
FinishTurnAnswerOnly(response_text, sources, cks) ==
    /\ messages' = Append(messages,
                          [role |-> "assistant", content |-> response_text,
                           sources |-> sources, context_chunks |-> cks])
    /\ chat_history' = Append(chat_history,
                              [role |-> "assistant", content |-> response_text])
    /\ since_clear' = Append(since_clear,
                             [role |-> "assistant", content |-> response_text])
    /\ pc' = "Idle"
FinishTurn(response_text, sources, cks) ==
    /\ messages' = Append(messages,
                          [role |-> "assistant", content |-> response_text,
                           sources |-> sources, context_chunks |-> cks])
    /\ chat_history' = chat_history \o
                          <<[role |-> "user", content |-> query],
                            [role |-> "assistant", content |-> response_text]>>
    /\ since_clear' = since_clear \o
                          <<[role |-> "user", content |-> query],
                            [role |-> "assistant", content |-> response_text]>>
    /\ pc' = "Idle"

\* the except branch without the st.rerun() that follows it: the script stays
\* where the error was shown
TurnFailedWithoutRerun ==
    /\ outcome' = "exception"
    /\ pc' = "Failed"
    /\ UNCHANGED <<messages, chat_history, since_clear>>

\* the except branch of a turn that had put the query into the chat history
\* before its calls
TurnFailedRecordingQuery ==
    /\ outcome' = "exception"
    /\ pc' = "Idle"
    /\ chat_history' = Append(chat_history, [role |-> "user", content |-> query])
    /\ UNCHANGED <<messages, since_clear>>

\* app.py 218-222: the except branch, st.error and st.rerun()
TurnFailed ==
    /\ outcome' = "exception"
    /\ pc' = "Idle"
    /\ UNCHANGED <<messages, chat_history, since_clear>>

\* what the store does in a turn of the bounded session
SessionStoreOutcomes ==
    {[kind |-> "response", matches |-> <<>>],
     [kind |-> "response", matches |-> <<MatchA, MatchB>>],
     [kind |-> "response", matches |-> <<[k \in {"score"} |-> 0]>>],
     [kind |-> "failure", matches |-> <<>>]}

\* app.py 191-196 (and 205-216 on an empty result):
\* embedding_manager.query(query, top_k=5) and the test of its result
AlwaysGenerate(store) ==
    /\ pc = "Retrieving"
    /\ UNCHANGED otherThanSession
    /\ UNCHANGED <<slotVars, is_local, event, query, source, cleared_history,
                   chat_invoked, chat_raised, endpoint, sent, response,
                   messages_at_start, chat_history_at_start>>
    /\ LET out == QueryOutcome(store)
       IN  IF out.raised
           THEN retrieval' = "raised" /\ UNCHANGED context_chunks /\ TurnFailed
           ELSE /\ retrieval' = IF out.result = <<>> THEN "empty" ELSE "nonempty"
                /\ context_chunks' = out.result
                /\ pc' = "Generating"
                /\ UNCHANGED <<messages, chat_history, since_clear, outcome>>
Retrieve(store) ==
    /\ pc = "Retrieving"
    /\ UNCHANGED otherThanSession
    /\ UNCHANGED <<slotVars, is_local, event, query, source, cleared_history,
                   chat_invoked, chat_raised, endpoint, sent, response,
                   messages_at_start, chat_history_at_start>>
    /\ LET out == QueryOutcome(store)
       IN  IF out.raised
           THEN retrieval' = "raised" /\ UNCHANGED context_chunks /\ TurnFailed
           ELSE IF out.result = <<>>
           THEN /\ retrieval' = "empty"
                /\ context_chunks' = out.result
                /\ outcome' = "no_context"
                /\ FinishTurn(ERROR_NO_CONTEXT, <<>>, out.result)
           ELSE /\ retrieval' = "nonempty"
                /\ context_chunks' = out.result
                /\ pc' = "Generating"
                /\ UNCHANGED <<messages, chat_history, since_clear, outcome>>

\* app.py 198-216: llm_client.chat(...) and what follows it
Generate(ep) ==
    /\ pc = "Generating"
    /\ ep.kind = "not_called" <=> is_local
    /\ UNCHANGED otherThanSession
    /\ UNCHANGED <<slotVars, is_local, event, query, source, context_chunks, retrieval,
                   cleared_history, messages_at_start, chat_history_at_start>>
    /\ LET r == chat(is_local, query, context_chunks, Some(chat_history), ep)
       IN  /\ chat_invoked' = TRUE
           /\ chat_raised' = r.raised
           /\ endpoint' = r.endpoint
           /\ sent' = r.sent
           /\ response' = r.response
           /\ IF r.raised
              THEN TurnFailed
              ELSE /\ outcome' = "answered"
                   /\ FinishTurn(r.response.answer, r.response.sources, context_chunks)

SessionInit ==
    /\ messages = <<>>
    /\ chat_history = <<>>
    /\ selected_skill = None
    /\ selected_company = None
    /\ sample_question = None
    /\ show_skill_suggestions = None
    /\ is_local \in BOOLEAN
    /\ pc = "Idle"
    /\ event = [kind |-> "rerun", value |-> <<>>]
    /\ query = <<>>
    /\ source = "none"
    /\ context_chunks = <<>>
    /\ outcome = "none"
    /\ retrieval = "none"
    /\ chat_invoked = FALSE
    /\ chat_raised = FALSE
    /\ endpoint = NotCalled
    /\ sent = <<>>
    /\ response = NoResponse
    /\ since_clear = <<>>
    /\ cleared_history = FALSE
    /\ messages_at_start = <<>>
    /\ chat_history_at_start = <<>>

\* a session in which nothing happens
SessionUnused == SessionInit /\ is_local = FALSE

\* ------------------------------------------------------------ client construction

\* the values an environment variable holding a credential or a name can have
Settings == {None, Some(""), Some("set")}
\* the values of IS_LOCAL
LocalSettings == {None, Some("true"), Some("TRUE"), Some("false")}

Environments ==
    [PINECONE_API_KEY : Settings, PINECONE_INDEX_NAME : Settings,
     OPENROUTER_API_KEY : Settings, IS_LOCAL : LocalSettings]

\* truthiness of os.getenv(name): None and "" are falsy
IsSet(opt) == opt # None /\ opt # Some("")

\* str.lower() on a value of IS_LOCAL
LowerSetting(v) == IF v = "TRUE" THEN "true" ELSE v

\* os.getenv("IS_LOCAL", "false").lower() == "true"
LocalMode(e) ==
    LowerSetting(IF e.IS_LOCAL = None THEN "false" ELSE TheValue(e.IS_LOCAL)) = "true"

\* EmbeddingManager.__init__: the checks of its configuration (embeddings.py 36-43)
EmbeddingManagerInitLocalExempt(e) ==
    IF ~IsSet(e.PINECONE_API_KEY) /\ ~LocalMode(e)
    THEN [state |-> "raised",
          error |-> "ValueError: PINECONE_API_KEY not found in environment variables"]
    ELSE IF ~IsSet(e.PINECONE_INDEX_NAME)
    THEN [state |-> "raised",
          error |-> "ValueError: PINECONE_INDEX_NAME not found in environment variables"]
    ELSE [state |-> "ready", error |-> ""]
EmbeddingManagerInit(e) ==
    IF ~IsSet(e.PINECONE_API_KEY)
    THEN [state |-> "raised",
          error |-> "ValueError: PINECONE_API_KEY not found in environment variables"]
    ELSE IF ~IsSet(e.PINECONE_INDEX_NAME)
    THEN [state |-> "raised",
          error |-> "ValueError: PINECONE_INDEX_NAME not found in environment variables"]
    ELSE [state |-> "ready", error |-> ""]

\* OpenRouterClient.__init__: is_local and the check of its key (llm_client.py 27-33)
OpenRouterClientInit(e) ==
    IF ~IsSet(e.OPENROUTER_API_KEY) /\ ~LocalMode(e)
    THEN [state |-> "raised", is_local |-> LocalMode(e),
          error |-> "ValueError: OPENROUTER_API_KEY not found in environment variables"]
    ELSE [state |-> "ready", is_local |-> LocalMode(e), error |-> ""]

\* EmbeddingManager()
NewEmbeddingManager ==
    /\ em_state = "none"
    /\ em_state' = EmbeddingManagerInit(env).state
    /\ em_error' = EmbeddingManagerInit(env).error
    /\ UNCHANGED <<env, client_state, client_error, client_is_local>>
    /\ UNCHANGED otherThanConfig

\* OpenRouterClient()
NewOpenRouterClient ==
    /\ client_state = "none"
    /\ client_state' = OpenRouterClientInit(env).state
    /\ client_error' = OpenRouterClientInit(env).error
    /\ client_is_local' = OpenRouterClientInit(env).is_local
    /\ UNCHANGED <<env, em_state, em_error>>
    /\ UNCHANGED otherThanConfig

\* no client is constructed yet, in the environment e
ConfigInit(e) ==
    /\ env = e
    /\ em_state = "none"
    /\ em_error = ""
    /\ client_state = "none"
    /\ client_error = ""
    /\ client_is_local = FALSE

\* a fully configured environment in which no client is constructed
ConfigUnused ==
    ConfigInit([PINECONE_API_KEY |-> Some("set"), PINECONE_INDEX_NAME |-> Some("set"),
                OPENROUTER_API_KEY |-> Some("set"), IS_LOCAL |-> None])

ConfigNext ==
    \/ NewEmbeddingManager
    \/ NewOpenRouterClient

\* ------------------------------------------------------------ indexing
DEFAULT_BATCH_SIZE == 100
METADATA_TEXT_LIMIT == 1000

\* the documents of the indexing script: their file names and types
Documents ==
    <<[name |-> "resume.pdf", type |-> "resume"],
      [name |-> "cover_letter.pdf", type |-> "cover_letter"]>>

\* the k-th chunk (from 0) process_document returns for a document
DocumentChunk(doc, k) ==
    [t \in {"text", "word_count", "chunk_index", "source", "doc_type", "file_path"} |->
        CASE t = "text" -> <<"a", " ", "a">>
          [] t = "word_count" -> 2
          [] t = "chunk_index" -> k
          [] t = "source" -> doc.name
          [] t = "doc_type" -> doc.type
          [] t = "file_path" -> <<"data/pdfs/", doc.name>>]

\* what can happen to a document in the script's loop: the file is missing,
\* process_document raises, or it returns n chunks
DocumentOutcomes ==
    {[kind |-> "missing", n |-> 0], [kind |-> "raised", n |-> 0]}
    \cup {[kind |-> "chunks", n |-> n] : n \in 0..MaxDocChunks}

\* the chunks a document adds to all_chunks
ChunksOf(doc, out) ==
    IF out.kind = "chunks" THEN [k \in 1..out.n |-> DocumentChunk(doc, k - 1)] ELSE <<>>

\* the chunk lists given to index_documents directly
ChunkLists ==
    {[k \in 1..n |-> DocumentChunk(Documents[1], k - 1)] : n \in 0..MaxChunks}

\* batch_size: int = None
BatchSizes == {None} \cup {Some(b) : b \in 1..MaxBatch}

\* self.model.encode(text).tolist(): the embedding is a function of the text
Encode(text) == <<"embedding of">> \o text

\* EmbeddingManager._prepare_metadata(chunk, index)
PrepareMetadata(chunk, index) ==
    [text        |-> SubSeq(chunk["text"], 1, Min(Len(chunk["text"]), METADATA_TEXT_LIMIT)),
     source      |-> Get(chunk, "source", "unknown"),
     doc_type    |-> Get(chunk, "doc_type", "general"),
     chunk_index |-> Get(chunk, "chunk_index", index)]

\* the tuple (vector_id, embedding, metadata) built for chunk number index (from 0)
VectorOf(chunk, index) ==
    [id       |-> <<"chunk_", ToString(index)>>,
     values   |-> Encode(chunk["text"]),
     metadata |-> PrepareMetadata(chunk, index)]

\* what main does once index_documents has returned or raised
\* (index_documents.py 50-59); a direct call just returns or raises
AfterIndexDocuments(raised) ==
    /\ ix_raised' = raised
    /\ IF ix_call = "main"
       THEN /\ ix_pc' = "returned"
            /\ printed' = printed \o
                  <<IF raised THEN "Error indexing documents"
                    ELSE "Successfully indexed all documents!",
                    "Indexing complete!">>
       ELSE /\ ix_pc' = IF raised THEN "raised" ELSE "returned"
            /\ UNCHANGED printed

\* index_documents up to its loop: batch_size defaults when it is None
EnterIndexDocuments(cks, bs) ==
    /\ all_chunks' = cks
    /\ batch_size' = IF bs = None THEN DEFAULT_BATCH_SIZE ELSE TheValue(bs)
    /\ ix_i' = 0
    /\ vectors' = <<>>
    /\ ix_pc' = "indexing"

\* a direct call index_documents(chunks, batch_size)
IndexDocumentsCall(cks, bs) ==
    /\ ix_pc = "idle"
    /\ EmbeddingManagerInit(env).state = "ready"
    /\ ix_call' = "index_documents"
    /\ EnterIndexDocuments(cks, bs)
    /\ UNCHANGED <<ix_docs, ix_d, upserts, ix_raised, printed>>
    /\ UNCHANGED otherThanIndex

\* the loop body without `vectors = []` after the upsert of a full batch
IndexLoopStepKeepingBatch(ok) ==
    /\ ix_pc = "indexing"
    /\ ix_i < Len(all_chunks)
    /\ UNCHANGED <<ix_call, ix_docs, ix_d, all_chunks, batch_size>>
    /\ UNCHANGED otherThanIndex
    /\ LET vs == Append(vectors, VectorOf(all_chunks[ix_i + 1], ix_i))
       IN  IF Len(vs) >= batch_size
           THEN /\ upserts' = Append(upserts, [vectors |-> vs, ok |-> ok])
                /\ vectors' = vs
                /\ IF ok
                   THEN /\ ix_i' = ix_i + 1
                        /\ UNCHANGED <<ix_pc, ix_raised, printed>>
                   ELSE /\ ix_i' = ix_i
                        /\ AfterIndexDocuments(TRUE)
           ELSE /\ ok
                /\ vectors' = vs
                /\ ix_i' = ix_i + 1
                /\ UNCHANGED <<upserts, ix_pc, ix_raised, printed>>

\* one iteration of the loop of index_documents; ok: whether the upsert of this
\* iteration, if there is one, succeeds
IndexLoopStep(ok) ==
    /\ ix_pc = "indexing"
    /\ ix_i < Len(all_chunks)
    /\ UNCHANGED <<ix_call, ix_docs, ix_d, all_chunks, batch_size>>
    /\ UNCHANGED otherThanIndex
    /\ LET vs == Append(vectors, VectorOf(all_chunks[ix_i + 1], ix_i))
       IN  IF Len(vs) >= batch_size
           THEN /\ upserts' = Append(upserts, [vectors |-> vs, ok |-> ok])
                /\ IF ok
                   THEN /\ vectors' = <<>>
                        /\ ix_i' = ix_i + 1
                        /\ UNCHANGED <<ix_pc, ix_raised, printed>>
                   ELSE /\ vectors' = vs
                        /\ ix_i' = ix_i
                        /\ AfterIndexDocuments(TRUE)
           ELSE /\ ok
                /\ vectors' = vs
                /\ ix_i' = ix_i + 1
                /\ UNCHANGED <<upserts, ix_pc, ix_raised, printed>>

\* the end of index_documents: the upsert of the remaining vectors, and the return
IndexLoopEnd(ok) ==
    /\ ix_pc = "indexing"
    /\ ix_i = Len(all_chunks)
    /\ UNCHANGED <<ix_call, ix_docs, ix_d, all_chunks, batch_size, ix_i, vectors>>
    /\ UNCHANGED otherThanIndex
    /\ IF vectors # <<>>
       THEN /\ upserts' = Append(upserts, [vectors |-> vectors, ok |-> ok])
            /\ AfterIndexDocuments(~ok)
       ELSE /\ ok
            /\ UNCHANGED upserts
            /\ AfterIndexDocuments(FALSE)

\* main of the indexing script up to its loop over the documents; docs: what
\* happens to each document
MainCall(docs) ==
    /\ ix_pc = "idle"
    /\ ix_call' = "main"
    /\ ix_docs' = docs
    /\ ix_d' = 0
    /\ all_chunks' = <<>>
    /\ ix_pc' = IF EmbeddingManagerInit(env).state = "raised" THEN "raised" ELSE "documents"
    /\ UNCHANGED <<batch_size, ix_i, vectors, upserts, ix_raised, printed>>
    /\ UNCHANGED otherThanIndex

\* one iteration of main's loop over the documents and, after the last one, the
\* test of all_chunks and the call of index_documents
MainDocumentStep ==
    /\ ix_pc = "documents"
    /\ ix_d < Len(ix_docs)
    /\ UNCHANGED <<ix_call, ix_docs, upserts, ix_raised>>
    /\ UNCHANGED otherThanIndex
    /\ ix_d' = ix_d + 1
    /\ LET cks == all_chunks \o ChunksOf(Documents[ix_d + 1], ix_docs[ix_d + 1])
       IN  IF ix_d + 1 < Len(ix_docs)
           THEN /\ all_chunks' = cks
                /\ UNCHANGED <<ix_pc, batch_size, ix_i, vectors, printed>>
           ELSE IF cks = <<>>
           THEN /\ all_chunks' = cks
                /\ printed' = Append(printed, "No documents were successfully processed!")
                /\ ix_pc' = "returned"
                /\ UNCHANGED <<batch_size, ix_i, vectors>>
           ELSE /\ EnterIndexDocuments(cks, None)
                /\ UNCHANGED printed

IndexUnused ==
    /\ ix_pc = "idle"
    /\ ix_call = "none"
    /\ ix_docs = <<>>
    /\ ix_d = 0
    /\ all_chunks = <<>>
    /\ batch_size = DEFAULT_BATCH_SIZE
    /\ ix_i = 0
    /\ vectors = <<>>
    /\ upserts = <<>>
    /\ ix_raised = FALSE
    /\ printed = <<>>

IndexNext ==
    \/ \E cks \in ChunkLists, bs \in BatchSizes : IndexDocumentsCall(cks, bs)
    \/ \E ok \in BOOLEAN : IndexLoopStep(ok)
    \/ \E ok \in BOOLEAN : IndexLoopEnd(ok)
    \/ \E docs \in [1..Len(Documents) -> DocumentOutcomes] : MainCall(docs)
    \/ MainDocumentStep

\* ------------------------------------------------------------ specifications
\* the Interaction Shell's session
Init == SessionInit /\ DocUnused /\ QueryUnused /\ BuildUnused /\ ConfigUnused /\ IndexUnused

Next ==
    \/ \E sq \in ClickedSampleQuestions : SampleQuestionButton(sq)
    \/ \E t \in UserInputs : ChatInput(t)
    \/ \E sk \in Skills : SkillButton(sk)
    \/ \E sg \in ClickedSuggestions : SuggestionButton(sg)
    \/ \E org \in Organizations : TimelineButton(org)
    \/ ClearChatButton
    \/ Rerun
    \/ \E store \in SessionStoreOutcomes : Retrieve(store)
    \/ \E ep \in EndpointOutcomes \cup {NotCalled} : Generate(ep)

Spec == Init /\ [][Next]_vars

\* the same session, where the store's and the endpoint's calls return or fail:
\* a turn waiting in retrieval or in generation takes its next step (the
\* script is sequential code; requests.post has a timeout)
SpecLive ==
    /\ Init
    /\ [][Next]_vars
    /\ WF_vars(\/ \E store \in SessionStoreOutcomes : Retrieve(store)
               \/ \E ep \in EndpointOutcomes \cup {NotCalled} : Generate(ep))

\* a session in local mode in which every sample question can be clicked, a
\* rerun asked for with st.rerun() takes place, and the calls of a turn
\* return or fail
InitSlots == Init /\ is_local

NextSlots ==
    \/ \E sq \in SampleQuestions : SampleQuestionButton(sq)
    \/ \E t \in UserInputs : ChatInput(t)
    \/ \E sk \in Skills : SkillButton(sk)
    \/ \E sg \in ClickedSuggestions : SuggestionButton(sg)
    \/ \E org \in Organizations : TimelineButton(org)
    \/ ClearChatButton
    \/ Rerun
    \/ \E store \in SessionStoreOutcomes : Retrieve(store)
    \/ \E ep \in EndpointOutcomes \cup {NotCalled} : Generate(ep)

SpecSlots ==
    /\ InitSlots
    /\ [][NextSlots]_vars
    /\ WF_vars(Rerun)
    /\ WF_vars(\/ \E store \in SessionStoreOutcomes : Retrieve(store)
               \/ \E ep \in EndpointOutcomes \cup {NotCalled} : Generate(ep))

\* calls on a DocumentProcessor
InitDoc == DocInit /\ QueryUnused /\ BuildUnused /\ SessionUnused /\ ConfigUnused /\ IndexUnused
SpecDoc == InitDoc /\ [][DocNext]_vars

\* the same calls, where a loop of chunk_text that can take its next iteration
\* does take it (the loop is sequential code that nothing suspends)
SpecDocLive == InitDoc /\ [][DocNext]_vars /\ WF_vars(ChunkLoopStep)

\* direct calls of EmbeddingManager.query
InitQuery == QueryUnused /\ DocUnused /\ BuildUnused /\ SessionUnused /\ ConfigUnused /\ IndexUnused
SpecQuery == InitQuery /\ [][QueryNext]_vars

\* direct calls of OpenRouterClient._build_messages
InitBuild == BuildUnused /\ DocUnused /\ QueryUnused /\ SessionUnused /\ ConfigUnused /\ IndexUnused
SpecBuild == InitBuild /\ [][BuildNext]_vars

\* the construction of the two clients in every environment
InitConfig ==
    /\ \E e \in Environments : ConfigInit(e)
    /\ DocUnused /\ QueryUnused /\ BuildUnused /\ SessionUnused /\ IndexUnused
SpecConfig == InitConfig /\ [][ConfigNext]_vars

\* runs of the indexing script and direct calls of index_documents, with the
\* vector store configured or its API key missing
InitIndex ==
    /\ IndexUnused
    /\ \E key \in {None, Some("set")} :
          ConfigInit([PINECONE_API_KEY |-> key, PINECONE_INDEX_NAME |-> Some("set"),
                      OPENROUTER_API_KEY |-> Some("set"), IS_LOCAL |-> None])
    /\ DocUnused /\ QueryUnused /\ BuildUnused /\ SessionUnused
SpecIndex == InitIndex /\ [][IndexNext]_vars

\* ------------------------------------------------------------ chunking claims

\* s without its first n elements (s[n:])
DropFirst(s, n) == IF n >= Len(s) THEN <<>> ELSE SubSeq(s, n + 1, Len(s))

\* the words of the first chunk followed by the words of every later chunk
\* stripped of its leading chunk_overlap words
Deoverlapped ==
    IF chunks = <<>> THEN <<>>
    ELSE Split(chunks[1]["text"]) \o
         Flatten([k \in 1..(Len(chunks) - 1) |->
                     DropFirst(Split(chunks[k + 1]["text"]), chunk_overlap)])

\* C1: when chunk_text has returned on a processor with chunk_size - chunk_overlap > 0,
\* the chunk_index values are 0, 1, ..., n-1 in list order and the first chunk
\* followed by the later chunks without their leading chunk_overlap words is
\* exactly the whitespace-tokenized word sequence of the text.
C1_ChunksReconstruct ==
    (dp_pc = "done" /\ chunk_size - chunk_overlap > 0) =>
        /\ \A k \in 1..Len(chunks) : chunks[k]["chunk_index"] = k - 1
        /\ Deoverlapped = Split(dp_text)

\* a returned call with at least three chunks that overlap
C1_Witness ==
    /\ dp_pc = "done"
    /\ chunk_size - chunk_overlap > 0
    /\ chunk_overlap >= 1
    /\ Len(chunks) >= 3

\* C2 as stated: a document whose cleaned text has fewer than chunk_size words
\* (zero words included) yields exactly one chunk holding all of its words.
C2_Original ==
    (dp_call = "process_document" /\ dp_pc = "done" /\ Len(Split(dp_text)) < chunk_size) =>
        /\ Len(chunks) = 1
        /\ Split(chunks[1]["text"]) = Split(dp_text)

\* C2 amended: on a processor with chunk_overlap < chunk_size, a document whose
\* cleaned text has at least one and fewer than chunk_size words yields exactly
\* one chunk holding all of its words; a document with zero words yields no chunk.
C2_ShortDocument ==
    (dp_call = "process_document" /\ dp_pc = "done" /\ chunk_size - chunk_overlap > 0
        /\ Len(Split(dp_text)) < chunk_size) =>
        IF Split(dp_text) = <<>>
        THEN chunks = <<>>
        ELSE /\ Len(chunks) = 1
             /\ Split(chunks[1]["text"]) = Split(dp_text)
             /\ chunks[1]["word_count"] = Len(Split(dp_text))

\* a processed document of two words, cleaned of a special character, on a
\* processor with an explicit chunk_size of three
C2_Witness ==
    /\ dp_call = "process_document"
    /\ dp_pc = "done"
    /\ dp_args.chunk_size = Some(3)
    /\ chunk_size - chunk_overlap > 0
    /\ Len(Split(dp_text)) = 2
    /\ Len(chunks) = 1

\* ------------------------------------------------------------ retrieval claims

NonIncreasing(scores) == \A k \in 1..(Len(scores) - 1) : scores[k] >= scores[k + 1]

\* the store answered with at most top_k matches in non-increasing score order
StoreConforms ==
    /\ Len(q_store.matches) <= q_top_k
    /\ NonIncreasing([k \in 1..Len(q_store.matches) |-> q_store.matches[k]["score"]])

\* C3 as stated: whatever the store answers, query returns at most top_k
\* matches, in non-increasing score order.
C3_Original ==
    q_pc = "done" =>
        /\ Len(q_out.result) <= q_top_k
        /\ NonIncreasing([k \in 1..Len(q_out.result) |-> q_out.result[k].score])

\* C3 amended: query returns one match per match of the store's response, in the
\* store's order and with the store's score; so it returns at most top_k matches
\* in non-increasing score order whenever the store's response is such.
C3_QueryTrustsStore ==
    q_pc = "done" =>
        /\ Len(q_out.result) = Len(q_store.matches)
        /\ \A k \in 1..Len(q_out.result) : q_out.result[k].score = q_store.matches[k]["score"]
        /\ StoreConforms =>
              /\ Len(q_out.result) <= q_top_k
              /\ NonIncreasing([k \in 1..Len(q_out.result) |-> q_out.result[k].score])

\* a returned query whose store answered top_k = 2 matches of decreasing score
C3_Witness ==
    /\ q_pc = "done"
    /\ StoreConforms
    /\ q_top_k = 2
    /\ Len(q_out.result) = 2
    /\ q_out.result[1].score > q_out.result[2].score

\* ------------------------------------------------------------ prompt claims

\* C10: the list _build_messages returns for a chat history of length h is one
\* system message, then the last min(h, 6) history entries unchanged and in
\* their order, then one user message holding the assembled prompt; its length is
\* min(h, 6) + 2 and never exceeds 8.
C10_MessageSequence ==
    b_pc = "done" =>
        LET hist == IF b_args.chat_history = None THEN <<>> ELSE TheValue(b_args.chat_history)
            h == Len(hist)
            kept == IF h <= 6 THEN h ELSE 6
            n == Len(b_messages)
        IN  /\ n = kept + 2
            /\ n <= 8
            /\ b_messages[1].role = "system"
            /\ b_messages[1].content = Prompts["system_prompt"]
            /\ \A k \in 1..kept : b_messages[1 + k] = hist[h - kept + k]
            /\ b_messages[n] =
                  [role |-> "user",
                   content |-> create_prompt(b_args.query, b_args.context_chunks)]

\* a call with a history of more than six entries whose first and seventh differ
C10_Witness ==
    /\ b_pc = "done"
    /\ b_args.chat_history # None
    /\ Len(TheValue(b_args.chat_history)) = 8
    /\ TheValue(b_args.chat_history)[1] # TheValue(b_args.chat_history)[7]
    /\ Len(b_messages) = 8
    /\ b_args.context_chunks # <<>>

\* ------------------------------------------------------------ session claims

\* sub occurs in s as a run of consecutive pieces
IsInfix(sub, s) ==
    \E k \in 0..(Len(s) - Len(sub)) : SubSeq(s, k + 1, k + Len(sub)) = sub

\* a is the end of s
IsSuffix(a, s) ==
    /\ Len(a) <= Len(s)
    /\ SubSeq(s, Len(s) - Len(a) + 1, Len(s)) = a

LastMessage == messages[Len(messages)]

\* a body of the chat-completion shape
GoodBody == (CHOOSE ep \in EndpointOutcomes : ep.kind = "body" /\ HasContent(ep.body)).body

\* C4: in local mode a call of chat returns without a call of the generation
\* endpoint, its answer contains the query text, and its response has the fields
\* of a successful non-local response.
C4_LocalMode ==
    (is_local /\ chat_invoked) =>
        /\ ~chat_raised
        /\ endpoint = NotCalled
        /\ sent = <<>>
        /\ IsInfix(query, response.answer)
        /\ DOMAIN response = DOMAIN SuccessResponse(GoodBody, context_chunks)
        /\ DOMAIN response = {"answer", "model", "sources", "context_chunks"}

\* a local-mode turn answered from two retrieved chunks
C4_Witness ==
    /\ is_local
    /\ chat_invoked
    /\ outcome = "answered"
    /\ Len(context_chunks) = 2
    /\ Len(response.sources) = 2

\* C5: when the call of the generation endpoint fails with a transport/HTTP
\* error, chat returns a response with a non-empty error field and empty sources
\* and context_chunks, and the message log ends with an assistant message whose
\* content is that response's answer, which holds the error text.
C5_TransportFailure ==
    endpoint.kind = "exception" =>
        /\ ~chat_raised
        /\ "error" \in DOMAIN response
        /\ response.error # ""
        /\ response.error = endpoint.error
        /\ response.sources = <<>>
        /\ response.context_chunks = <<>>
        /\ pc = "Idle"
        /\ messages # <<>>
        /\ LastMessage.role = "assistant"
        /\ LastMessage.content = response.answer
        /\ IsInfix(<<endpoint.error>>, LastMessage.content)

\* a second turn of a session whose generation call failed
C5_Witness ==
    /\ endpoint.kind = "exception"
    /\ outcome = "answered"
    /\ Len(messages) = 4
    /\ context_chunks # <<>>

\* C6 as stated: whatever the generation endpoint does, chat returns a response
\* to its caller and never raises.
C6_ChatNeverRaises ==
    chat_invoked => (~chat_raised /\ response # NoResponse)

\* the endpoint answered with a body without "choices", and the exception that
\* left chat ended the turn
C6_Witness ==
    /\ chat_invoked
    /\ chat_raised
    /\ endpoint.kind = "body"
    /\ ~HasContent(endpoint.body)
    /\ response = NoResponse
    /\ outcome = "exception"

\* C7: in a turn whose retrieval result is empty chat is not invoked, and the turn
\* ends with an assistant message holding the fixed no-relevant-information text
\* and an empty source list; chat is invoked only after a non-empty result.
C7_EmptyRetrieval ==
    /\ retrieval = "empty" =>
          /\ ~chat_invoked
          /\ endpoint = NotCalled
          /\ pc = "Idle"
          /\ outcome = "no_context"
          /\ messages # <<>>
          /\ LastMessage.role = "assistant"
          /\ LastMessage.content = ERROR_NO_CONTEXT
          /\ LastMessage.sources = <<>>
    /\ (chat_invoked \/ pc = "Generating") => retrieval = "nonempty"

\* a second turn of a session whose retrieval result was empty
C7_Witness ==
    /\ retrieval = "empty"
    /\ outcome = "no_context"
    /\ Len(messages) = 4
    /\ Len(chat_history) = 4

\* C8: the clear-history action leaves the message log and the chat-history log
\* empty, and the history entries of every request sent to the generation
\* endpoint are entries appended since the last clear.
C8_ClearResetsHistory ==
    [][/\ outcome' = "cleared" => (messages' = <<>> /\ chat_history' = <<>>)
       /\ (sent = <<>> /\ sent' # <<>>) =>
             IsSuffix(SubSeq(sent', 2, Len(sent') - 1), since_clear)]_vars

\* a request with two history entries, sent after a clear that removed entries
C8_Witness ==
    /\ cleared_history
    /\ outcome = "answered"
    /\ endpoint.kind = "body"
    /\ Len(sent) = 4

\* C9: a turn starts exactly when a query source is non-empty; its query is the
\* first non-empty of the selected-skill slot, the selected-company slot, the
\* sample-question slot and the user input; the slot it is taken from is empty
\* when the turn starts and the other slots keep their values; no slot changes
\* while the turn is processed.
C9_QueryPriority ==
    [][LET sample_now == IF event'.kind = "sample_question" THEN Some(event'.value)
                         ELSE sample_question
           input == IF event'.kind = "chat_input" THEN Some(event'.value) ELSE None
       IN  /\ (pc = "Idle" /\ pc' = "Retrieving") =>
                /\ messages' = Append(messages, [role |-> "user", content |-> query'])
                /\ \/ /\ SlotSet(selected_skill)
                      /\ query' = TheValue(selected_skill)
                      /\ selected_skill' = None
                      /\ selected_company' = selected_company
                      /\ sample_question' = sample_now
                   \/ /\ ~SlotSet(selected_skill) /\ SlotSet(selected_company)
                      /\ query' = TheValue(selected_company)
                      /\ selected_company' = None
                      /\ selected_skill' = selected_skill
                      /\ sample_question' = sample_now
                   \/ /\ ~SlotSet(selected_skill) /\ ~SlotSet(selected_company)
                      /\ sample_now # None
                      /\ query' = TheValue(sample_now)
                      /\ sample_question' = None
                      /\ selected_skill' = selected_skill
                      /\ selected_company' = selected_company
                   \/ /\ ~SlotSet(selected_skill) /\ ~SlotSet(selected_company)
                      /\ sample_now = None
                      /\ input # None
                      /\ query' = TheValue(input)
                      /\ UNCHANGED <<selected_skill, selected_company, sample_question>>
           /\ (pc = "Idle" /\ pc' = "Idle") =>
                /\ ~SlotSet(selected_skill)
                /\ ~SlotSet(selected_company)
                /\ sample_now = None
                /\ input = None
           /\ pc # "Idle" =>
                UNCHANGED <<selected_skill, selected_company, sample_question>>]_vars

\* a turn that took the selected-company question while a sample question, then
\* left in its slot, was pending
C9_Witness ==
    /\ pc = "Retrieving"
    /\ source = "selected_company"
    /\ event.kind = "sample_question"
    /\ sample_question = Some(event.value)
    /\ selected_company = None

\* ------------------------------------------------------------ process_document claims

\* C11: process_document on a path whose extension, compared without regard to
\* case, is not .pdf, .txt or .md raises the unsupported-file-type error before
\* _extract_text is reached and returns no chunks; on a path with one of these
\* extensions it does not raise that error.
C11_UnsupportedFormat ==
    dp_call = "process_document" =>
        IF dp_suffix \in {<<".pdf">>, <<".PDF">>, <<".txt">>, <<".TXT">>, <<".md">>, <<".MD">>}
        THEN dp_error # "ValueError: Unsupported file type"
        ELSE /\ dp_pc = "raised"
             /\ dp_error = "ValueError: Unsupported file type"
             /\ ~dp_opened
             /\ chunks = <<>>

\* a .docx path was refused
C11_Witness ==
    /\ dp_call = "process_document"
    /\ dp_suffix = <<".docx">>
    /\ dp_pc = "raised"
    /\ ~dp_opened

\* ------------------------------------------------------------ turn claims

\* C12 as stated: after a turn in which retrieval or generation raised, the
\* script is idle again and the message log and the chat-history log equal their
\* values from before the turn.
C12_FailedTurnDiscarded ==
    outcome = "exception" =>
        /\ pc = "Idle"
        /\ messages = messages_at_start
        /\ chat_history = chat_history_at_start

\* a turn in which retrieval raised: the chat-history log is as before the turn,
\* the message log has kept the turn's user message
C12_Witness ==
    /\ outcome = "exception"
    /\ retrieval = "raised"
    /\ pc = "Idle"
    /\ chat_history = chat_history_at_start
    /\ messages = Append(messages_at_start, [role |-> "user", content |-> query])

\* a is the beginning of s
IsPrefix(a, s) ==
    /\ Len(a) <= Len(s)
    /\ SubSeq(s, 1, Len(a)) = a

TurnOutcomes == {"turn", "answered", "no_context", "exception"}

\* C13: every step other than the clear-history action leaves the message log
\* and the chat-history log as prefixes of their new values, and during and
\* after a turn, whatever its outcome, the logs as they were when the turn
\* started are prefixes of the logs.
C13_LogsOnlyGrow ==
    [][/\ outcome' # "cleared" =>
             (IsPrefix(messages, messages') /\ IsPrefix(chat_history, chat_history'))
       /\ outcome' \in TurnOutcomes =>
             /\ IsPrefix(messages_at_start', messages')
             /\ IsPrefix(chat_history_at_start', chat_history')]_vars

\* a second turn, ended by an exception, with the first turn's entries in place
C13_Witness ==
    /\ outcome = "exception"
    /\ pc = "Idle"
    /\ Len(messages_at_start) = 2
    /\ Len(chat_history_at_start) = 2
    /\ IsPrefix(messages_at_start, messages)
    /\ chat_history = chat_history_at_start

\* ------------------------------------------------------------ configuration claims

\* C14 as stated: EmbeddingManager() raises when the index name is absent, and
\* when the API key is absent while local mode is off; in local mode the API key
\* is not required, so with the index name present the construction succeeds.
C14_Original ==
    em_state # "none" =>
        /\ ~IsSet(env.PINECONE_INDEX_NAME) => em_state = "raised"
        /\ (~IsSet(env.PINECONE_API_KEY) /\ ~LocalMode(env)) => em_state = "raised"
        /\ (LocalMode(env) /\ IsSet(env.PINECONE_INDEX_NAME)) => em_state = "ready"

\* C14: EmbeddingManager() raises a ValueError exactly when PINECONE_API_KEY or
\* PINECONE_INDEX_NAME is absent or empty, whether local mode is on or off; local
\* mode lifts only the requirement of OpenRouterClient() for OPENROUTER_API_KEY.
C14_KeyRequiredInLocalMode ==
    /\ em_state # "none" =>
          /\ em_state = "raised" <=>
                (~IsSet(env.PINECONE_API_KEY) \/ ~IsSet(env.PINECONE_INDEX_NAME))
          /\ em_state = "raised" <=> em_error # ""
    /\ client_state # "none" =>
          /\ client_state = "raised" <=>
                (~IsSet(env.OPENROUTER_API_KEY) /\ env.IS_LOCAL \notin {Some("true"), Some("TRUE")})
          /\ client_is_local = (env.IS_LOCAL \in {Some("true"), Some("TRUE")})

\* in local mode, with the index name set and no API key, OpenRouterClient() was
\* constructed and EmbeddingManager() raised
C14_Witness ==
    /\ env.IS_LOCAL = Some("true")
    /\ env.PINECONE_API_KEY = None
    /\ env.OPENROUTER_API_KEY = None
    /\ IsSet(env.PINECONE_INDEX_NAME)
    /\ client_state = "ready"
    /\ client_is_local
    /\ em_state = "raised"

\* ------------------------------------------------------------ indexing claims

\* the script has ended, by returning or by an exception
IndexEnded == ix_pc \in {"returned", "raised"}

\* no document was found, or every document found failed or gave no chunk
NothingProcessed ==
    \A d \in 1..Len(ix_docs) : ix_docs[d].kind # "chunks" \/ ix_docs[d].n = 0

\* some call of self.index.upsert failed
UpsertFailed == \E k \in 1..Len(upserts) : ~upserts[k].ok

\* C15 as stated: a run of the indexing script in which no document is found, or
\* every found document fails or yields no chunk, performs no upsert and ends
\* in a failure, not by returning normally.
C15_NoDocumentsFails ==
    (ix_call = "main" /\ ix_d = Len(Documents) /\ IndexEnded /\ NothingProcessed) =>
        /\ upserts = <<>>
        /\ ix_pc = "raised"

\* the script found the first document missing, failed on the second, made no
\* upsert, printed its message and returned
C15_Witness ==
    /\ ix_call = "main"
    /\ ix_d = Len(Documents)
    /\ ix_docs[1].kind = "missing"
    /\ ix_docs[2].kind = "raised"
    /\ upserts = <<>>
    /\ printed = <<"No documents were successfully processed!">>
    /\ ix_pc = "returned"

\* C16 as stated: after a failed upsert no later batch is sent, index_documents
\* raises, and a run of the script does not end by returning normally with its
\* completion message.
C16_UpsertFailureSurfaced ==
    /\ \A k \in 1..Len(upserts) : ~upserts[k].ok => k = Len(upserts)
    /\ UpsertFailed => (ix_raised /\ IndexEnded)
    /\ (UpsertFailed /\ ix_call = "index_documents") => ix_pc = "raised"
    /\ (UpsertFailed /\ ix_call = "main") =>
          /\ ix_pc = "raised"
          /\ \A k \in 1..Len(printed) : printed[k] # "Indexing complete!"

\* the script's only upsert failed, and the script printed the error and its
\* completion message and returned
C16_Witness ==
    /\ ix_call = "main"
    /\ UpsertFailed
    /\ ix_raised
    /\ ix_pc = "returned"
    /\ printed = <<"Error indexing documents", "Indexing complete!">>

\* ------------------------------------------------------------ chunk window claims

\* the words of chunk number k (from 1)
ChunkWords(k) == Split(chunks[k]["text"])

\* the word offset at which the window of chunk number k (from 1) starts
Offset(k) == (k - 1) * (chunk_size - chunk_overlap)

\* C17: for a non-empty word sequence and chunk_size - chunk_overlap > 0, chunk
\* k holds exactly the words from its offset up to the offset plus chunk_size
\* or the end of the words; its word_count is its number of words and is at
\* most chunk_size; every chunk but the last has chunk_size words; and the last
\* chunk is the first window that reaches the end of the words.
C17_ChunkWindows ==
    (dp_pc \in {"loop", "done"} /\ chunk_size - chunk_overlap > 0 /\ words # <<>>) =>
        /\ \A k \in 1..Len(chunks) :
              /\ ChunkWords(k) =
                    SubSeq(words, Offset(k) + 1, Min(Offset(k) + chunk_size, Len(words)))
              /\ chunks[k]["word_count"] = Len(ChunkWords(k))
              /\ chunks[k]["word_count"] <= chunk_size
              /\ chunks[k]["word_count"] >= 1
              /\ k < Len(chunks) => chunks[k]["word_count"] = chunk_size
              /\ k < Len(chunks) => Offset(k) + chunk_size < Len(words)
        /\ dp_pc = "done" =>
              /\ chunks # <<>>
              /\ Offset(Len(chunks)) + chunk_size >= Len(words)

\* a returned call with overlapping windows whose last chunk is shorter than
\* chunk_size
C17_Witness ==
    /\ dp_pc = "done"
    /\ chunk_overlap >= 1
    /\ chunk_size - chunk_overlap > 0
    /\ Len(chunks) >= 2
    /\ chunks[Len(chunks)]["word_count"] < chunk_size
    /\ chunks[1]["word_count"] = chunk_size

\* C18: in a processor with chunk_overlap < chunk_size a call of chunk_text that
\* entered its loop returns, and from one iteration to the next the word offset
\* of the window grows; a call with chunk_overlap < chunk_size never raises.
C18_ForwardProgress ==
    /\ [][(dp_pc = "loop" /\ dp_pc' = "loop") => (i' > i /\ Len(chunks') = Len(chunks) + 1)]_vars
    /\ [](dp_pc = "raised" /\ dp_call = "chunk_text" => chunk_overlap >= chunk_size)
    /\ (dp_pc = "loop" /\ chunk_overlap < chunk_size) ~> (dp_pc = "done")

\* a returned call whose loop ran three times, each time one word further
C18_Witness ==
    /\ dp_pc = "done"
    /\ dp_call = "chunk_text"
    /\ chunk_size - chunk_overlap = 1
    /\ Len(chunks) = 3
    /\ i = 2

\* ------------------------------------------------------------ rendered turn claims

\* the answer and the sources a rendered turn shows
RenderedAnswer == IF outcome = "no_context" THEN ERROR_NO_CONTEXT ELSE response.answer
RenderedSources == IF outcome = "no_context" THEN <<>> ELSE response.sources

\* the logs are the logs from the start of the turn followed by the turn's two entries
TurnRecorded ==
    /\ messages = messages_at_start \o
          <<[role |-> "user", content |-> query],
            [role |-> "assistant", content |-> RenderedAnswer,
             sources |-> RenderedSources, context_chunks |-> context_chunks]>>
    /\ chat_history = chat_history_at_start \o
          <<[role |-> "user", content |-> query],
            [role |-> "assistant", content |-> RenderedAnswer]>>
    /\ \A k \in 1..2 :
          LET m == messages[Len(messages_at_start) + k]
              h == chat_history[Len(chat_history_at_start) + k]
          IN  /\ h.role = m.role
              /\ h.content = m.content
              /\ DOMAIN h = {"role", "content"}

\* C19: a turn that ends with its assistant message has appended exactly two
\* entries to the message log (the user message with the query, the assistant
\* message with answer, sources and context chunks) and exactly two entries to
\* the chat-history log with the same roles and contents; the start of a turn
\* empties only the slot the query was taken from, and no slot changes while
\* the turn is processed.
C19_TurnAppendsTwo ==
    [][/\ outcome' \in {"answered", "no_context"} => TurnRecorded'
       /\ pc # "Idle" => UNCHANGED slotVars
       /\ (pc = "Idle" /\ pc' = "Retrieving") =>
             /\ selected_skill' =
                   IF source' = "selected_skill" THEN None ELSE selected_skill
             /\ selected_company' =
                   IF source' = "selected_company" THEN None ELSE selected_company
             /\ sample_question' =
                   IF source' = "sample_question" THEN None
                   ELSE IF event'.kind = "sample_question" THEN Some(event'.value)
                   ELSE sample_question
             /\ show_skill_suggestions' = show_skill_suggestions]_vars

\* a second turn, answered from two chunks, that took the selected-company
\* question and left a sample question pending
C19_Witness ==
    /\ outcome = "answered"
    /\ source = "selected_company"
    /\ sample_question # None
    /\ Len(context_chunks) = 2
    /\ Len(messages_at_start) = 2
    /\ TurnRecorded

\* C20: a response of chat without an error field (the success path and local
\* mode) has one source per context chunk given to chat, the i-th being the
\* source field of the i-th chunk, duplicates kept, and its context_chunks are
\* the chunks given to chat.
C20_SourcesFollowChunks ==
    (chat_invoked /\ ~chat_raised /\ "error" \notin DOMAIN response) =>
        /\ Len(response.sources) = Len(context_chunks)
        /\ \A n \in 1..Len(context_chunks) :
              response.sources[n] = context_chunks[n]["source"]
        /\ response.context_chunks = context_chunks

\* a successful non-local response for two chunks of the same document
C20_Witness ==
    /\ chat_invoked
    /\ ~is_local
    /\ endpoint.kind = "body"
    /\ ~chat_raised
    /\ Len(context_chunks) = 2
    /\ context_chunks[1]["source"] = context_chunks[2]["source"]
    /\ context_chunks[1] # context_chunks[2]
    /\ Len(response.sources) = 2

\* ------------------------------------------------------------ batching claims

\* the records of all upsert requests of the run, in the order they were sent
Upserted == Flatten([k \in 1..Len(upserts) |-> upserts[k].vectors])

\* C21: a run of index_documents without failures, over n chunks with batch
\* size b >= 1, sends upsert requests of at least 1 and at most b records, all
\* of exactly b records except possibly the last; the records sent are, in
\* input order, one per chunk, the record of chunk i (from 0) having the
\* identifier chunk_i and the embedding and metadata of that chunk, so the
\* identifiers of a run are pairwise distinct; for n = 0 no upsert is sent.
C21_BatchedUpserts ==
    (ix_pc = "returned" /\ ~ix_raised /\ ~UpsertFailed /\ batch_size >= 1) =>
        /\ \A k \in 1..Len(upserts) :
              /\ Len(upserts[k].vectors) >= 1
              /\ Len(upserts[k].vectors) <= batch_size
              /\ k < Len(upserts) => Len(upserts[k].vectors) = batch_size
        /\ Len(Upserted) = Len(all_chunks)
        /\ \A n \in 1..Len(Upserted) :
              /\ Upserted[n].id = <<"chunk_", ToString(n - 1)>>
              /\ Upserted[n].values = Encode(all_chunks[n]["text"])
              /\ Upserted[n].metadata = PrepareMetadata(all_chunks[n], n - 1)
        /\ \A n, o \in 1..Len(Upserted) : n # o => Upserted[n].id # Upserted[o].id
        /\ all_chunks = <<>> => upserts = <<>>

\* a direct call with four chunks and batch size 3 that returned after two
\* upserts, of three records and of one
C21_Witness ==
    /\ ix_call = "index_documents"
    /\ ix_pc = "returned"
    /\ ~ix_raised
    /\ ~UpsertFailed
    /\ batch_size = 3
    /\ Len(all_chunks) = 4
    /\ Len(upserts) = 2
    /\ Len(upserts[1].vectors) = 3
    /\ Len(upserts[2].vectors) = 1

\* ------------------------------------------------------------ extraction claims

\* C22 as stated: when opening, reading or extracting the text of a .pdf, .txt
\* or .md file fails, process_document does not raise the failure: the
\* extracted text is empty and no chunk is returned.
C22_ExtractionFailureContained ==
    (dp_call = "process_document" /\ dp_opened /\ dp_failure # "none") =>
        /\ dp_error # "OSError"
        /\ dp_text = <<>>
        /\ chunks = <<>>

\* process_document on a .txt file that could not be opened has raised
C22_Witness ==
    /\ dp_call = "process_document"
    /\ dp_suffix = <<".txt">>
    /\ dp_opened
    /\ dp_failure = "open"
    /\ dp_pc = "raised"
    /\ dp_error = "OSError"

\* ------------------------------------------------------------ browse claims

\* C23: a script run in which a handler of the skills tab or of the timeline
\* tab is executed calls neither query nor chat and leaves the message log and
\* the chat-history log as they were; of the session state it changes only the
\* selected-skill slot (a suggested question is written, and the suggestion
\* marker removed), the selected-company slot (the organization's question is
\* written) or the suggestion marker (set to the clicked skill). No step of
\* the session, browse, clear or turn, sends anything to the vector index.
C23_BrowseFrame ==
    [][/\ upserts' = upserts
       /\ (pc = "Idle" /\ outcome' = "browsed") =>
             /\ pc' = "Idle"
             /\ retrieval' = "none"
             /\ ~chat_invoked'
             /\ messages' = messages
             /\ chat_history' = chat_history
             /\ sample_question' = sample_question
             /\ is_local' = is_local
             /\ CASE event'.kind = "skill" ->
                       /\ show_skill_suggestions' = Some(event'.value[1])
                       /\ selected_skill' = selected_skill
                       /\ selected_company' = selected_company
                  [] event'.kind = "suggestion" ->
                       /\ selected_skill' = Some(event'.value)
                       /\ show_skill_suggestions' = None
                       /\ selected_company' = selected_company
                  [] event'.kind = "timeline" ->
                       /\ selected_company' = Some(CompanyQuestion(event'.value[1]))
                       /\ selected_skill' = selected_skill
                       /\ show_skill_suggestions' = show_skill_suggestions
                  [] OTHER -> FALSE]_vars

\* after one answered turn, the timeline's button has written its question
\* into the selected-company slot and the two messages are still there
C23_Witness ==
    /\ outcome = "browsed"
    /\ event.kind = "timeline"
    /\ selected_company = Some(CompanyQuestion("Christelijke Mutualiteit"))
    /\ pc = "Idle"
    /\ Len(messages) = 2
    /\ Len(chat_history) = 2
    /\ ~chat_invoked

\* ------------------------------------------------------------ turn progress claims

\* the turn has ended: with its assistant message as the last entry of the
\* message log, or with the inline error of the except branch
TurnFinished ==
    /\ pc = "Idle"
    /\ \/ /\ outcome \in {"answered", "no_context"}
          /\ Len(messages) = Len(messages_at_start) + 2
          /\ messages[Len(messages)].role = "assistant"
       \/ /\ outcome = "exception"
          /\ Len(messages) = Len(messages_at_start) + 1

\* C24: when the store's and the endpoint's calls return or fail, a turn that
\* consumed a query ends, with an assistant message appended to the message
\* log or with an inline error, and the script is idle again; a turn goes from
\* Idle to Retrieving, from there to Generating or to its end, and from
\* Generating to its end; Generating is entered only from Retrieving with a
\* non-empty result; while a turn is running no other query is consumed and no
\* user message is appended.
C24_TurnsFinish ==
    /\ [][/\ pc = "Idle" => pc' \in {"Idle", "Retrieving"}
          /\ pc = "Retrieving" => pc' \in {"Generating", "Idle"}
          /\ pc = "Generating" => pc' = "Idle"
          /\ pc' = "Generating" =>
                (pc = "Retrieving" /\ retrieval' = "nonempty" /\ context_chunks' # <<>>)
          /\ pc # "Idle" =>
                /\ query' = query
                /\ source' = source
                /\ messages_at_start' = messages_at_start
                /\ \/ messages' = messages
                   \/ /\ Len(messages') = Len(messages) + 1
                      /\ messages'[Len(messages')].role = "assistant"
                      /\ SubSeq(messages', 1, Len(messages)) = messages
          /\ (pc # "Idle" /\ pc' = "Idle") => TurnFinished']_vars
    /\ [](pc \in {"Idle", "Retrieving", "Generating"})
    /\ (pc # "Idle") ~> TurnFinished

\* a second turn that went through generation and ended with its answer
C24_Witness ==
    /\ TurnFinished
    /\ outcome = "answered"
    /\ retrieval = "nonempty"
    /\ chat_invoked
    /\ Len(messages) = 4

\* ------------------------------------------------------------ construction claims

\* C25 as stated: a processor constructed with an explicit chunk_size or
\* chunk_overlap, any non-negative integer, has that value as its window length
\* or its overlap (an overlap of 0 giving windows that advance by chunk_size),
\* and the defaults 400 and 50 are used only for an argument left out.
C25_ExplicitArgumentsUsed ==
    /\ chunk_size = IF dp_args.chunk_size = None THEN DEFAULT_CHUNK_SIZE
                    ELSE TheValue(dp_args.chunk_size)
    /\ chunk_overlap = IF dp_args.chunk_overlap = None THEN DEFAULT_CHUNK_OVERLAP
                       ELSE TheValue(dp_args.chunk_overlap)
    /\ dp_args.chunk_overlap = Some(0) => Stride = chunk_size

\* DocumentProcessor(chunk_size=2, chunk_overlap=0) has the overlap 50, and its
\* chunk_text returned no chunk for a text of three words
C25_Witness ==
    /\ dp_args = [chunk_size |-> Some(2), chunk_overlap |-> Some(0)]
    /\ chunk_overlap = DEFAULT_CHUNK_OVERLAP
    /\ dp_call = "chunk_text"
    /\ dp_pc = "done"
    /\ Len(words) = 3
    /\ chunks = <<>>

\* ------------------------------------------------------------ log shape claims

\* C26: in every state of the session the chat-history log has even length, its
\* entries are user, assistant, user, assistant, ..., each with the fields role
\* and content only, it is no longer than the message log, and each of its
\* pairs (user query, assistant answer) is found in the message log as a user
\* message directly followed by an assistant message with the same contents.
C26_HistoryShape ==
    /\ Len(chat_history) % 2 = 0
    /\ \A n \in 1..Len(chat_history) :
          /\ DOMAIN chat_history[n] = {"role", "content"}
          /\ chat_history[n].role = IF n % 2 = 1 THEN "user" ELSE "assistant"
    /\ Len(chat_history) <= Len(messages)
    /\ \A j \in 1..(Len(chat_history) \div 2) :
          \E n \in 1..(Len(messages) - 1) :
             /\ messages[n].role = "user"
             /\ messages[n].content = chat_history[2 * j - 1].content
             /\ messages[n + 1].role = "assistant"
             /\ messages[n + 1].content = chat_history[2 * j].content

\* a failed turn followed by an answered one: three messages, the first two
\* from the user, and one pair in the chat history
C26_Witness ==
    /\ pc = "Idle"
    /\ Len(messages) = 3
    /\ messages[1].role = "user"
    /\ messages[2].role = "user"
    /\ messages[3].role = "assistant"
    /\ Len(chat_history) = 2
    /\ outcome = "answered"

\* ------------------------------------------------------------ pending slot claims

\* the questions the timeline's buttons write
CompanyQuestions == {CompanyQuestion(org) : org \in Organizations}

\* a turn has just started on question q taken from the slot named slot, and q
\* is the user message at the end of the message log
AskedFrom(slot, q) ==
    /\ pc = "Retrieving"
    /\ source = slot
    /\ query = q
    /\ messages # <<>>
    /\ messages[Len(messages)] = [role |-> "user", content |-> q]

\* the bounded message log has room for the running turn's answer, if a turn
\* is running, and for one more turn
HasRoom == Len(messages) + (IF pc = "Idle" THEN 2 ELSE 3) <= MaxMessages

\* another sample question was clicked while q was waiting in the slot
Replaced(q) == event.kind = "sample_question" /\ event.value # q

\* a run that starts a turn takes the query from the first non-empty source in
\* the order selected skill, selected company, sample question, chat input,
\* empties that slot only and keeps the others; the steps of a turn and the
\* clear-history handler change no slot
SlotsStep ==
    /\ (pc = "Idle" /\ pc' = "Retrieving") =>
          LET sample_now == IF event'.kind = "sample_question" THEN Some(event'.value)
                            ELSE sample_question
          IN  /\ source' = IF SlotSet(selected_skill) THEN "selected_skill"
                           ELSE IF SlotSet(selected_company) THEN "selected_company"
                           ELSE IF sample_now # None THEN "sample_question"
                           ELSE "chat_input"
              /\ query' = CASE source' = "selected_skill" -> TheValue(selected_skill)
                            [] source' = "selected_company" -> TheValue(selected_company)
                            [] source' = "sample_question" -> TheValue(sample_now)
                            [] OTHER -> event'.value
              /\ selected_skill' =
                    IF source' = "selected_skill" THEN None ELSE selected_skill
              /\ selected_company' =
                    IF source' = "selected_company" THEN None ELSE selected_company
              /\ sample_question' =
                    IF source' = "sample_question" THEN None ELSE sample_now
    /\ (pc # "Idle" \/ outcome' = "cleared") =>
          UNCHANGED <<selected_skill, selected_company, sample_question>>

\* a question waiting in the selected-skill or the selected-company slot
\* becomes the user message of a turn
BrowseQuestionsAsked ==
    /\ \A q \in ClickedSuggestions :
          (selected_skill = Some(q) /\ HasRoom) ~> AskedFrom("selected_skill", q)
    /\ \A q \in CompanyQuestions :
          (selected_company = Some(q) /\ HasRoom) ~> AskedFrom("selected_company", q)

\* C27 as stated: the run takes the highest-priority pending source and leaves
\* the other slots alone, no turn and no clear changes a slot, and every
\* question written into the selected-skill, selected-company or
\* sample-question slot becomes a user message of the message log.
C27_Original ==
    /\ [][SlotsStep]_vars
    /\ BrowseQuestionsAsked
    /\ \A q \in SampleQuestions :
          (sample_question = Some(q) /\ HasRoom) ~> AskedFrom("sample_question", q)

\* C27: the run takes the highest-priority pending source and leaves the other
\* slots alone, no turn and no clear changes a slot, and every question written
\* into the selected-skill or selected-company slot becomes a user message of
\* the message log; a question waiting in the sample-question slot becomes a
\* user message unless another sample question is clicked first, which
\* replaces it in the slot.
C27_PendingConsumed ==
    /\ [][SlotsStep]_vars
    /\ BrowseQuestionsAsked
    /\ \A q \in SampleQuestions :
          (sample_question = Some(q) /\ HasRoom) ~>
              (AskedFrom("sample_question", q) \/ Replaced(q))

\* the sample question that waited during the turn of a suggested question is
\* taken by the rerun after that turn
C27_Witness ==
    /\ \E q \in SampleQuestions : AskedFrom("sample_question", q)
    /\ event.kind = "rerun"
    /\ Len(messages) = 3
    /\ messages[1].content \in ClickedSuggestions
    /\ messages[2].role = "assistant"
    /\ selected_skill = None

====
